---- MODULE Spec2Model ----
(***************************************************************************)
(* tinybase-zod: the typed facade createTypedStore(store, schema) of       *)
(* src/store.ts in front of a TinyBase store.                              *)
(*                                                                         *)
(* JavaScript objects (rows, tables, the values object) are functions      *)
(* whose DOMAIN is the object's key set.  A JavaScript value is a record   *)
(* [k, s, n]: k is its kind, s and n its payload.  The TinyBase store is   *)
(* the external collaborator: the storeXxx operators state the contract of *)
(* the store method the facade calls at the mapped line (a schemaless      *)
(* store drops cells that are not scalars, never keeps an empty row or     *)
(* table, and makes no change when a whole argument is invalid or empty).  *)
(***************************************************************************)
EXTENDS Integers, Sequences, FiniteSets, TLC

VARIABLES tables, values, last,
          transactions, changedCells, changedValues, phase, doRollback,
          inActions, opened, listeners, log, heard, writes

\* the store's transaction state, the registered listeners and what they kept
lvars == <<transactions, changedCells, changedValues, phase, doRollback,
           inActions, opened, listeners, log, heard, writes>>

vars == <<tables, values, last, lvars>>

---------------------------------------------------------------------------
(* JavaScript values *)

Undef == [k |-> "undefined", s |-> "", n |-> 0]

Str(x) == [k |-> "string", s |-> x, n |-> 0]

Obj(x) == [k |-> "object", s |-> x, n |-> 0]

DateV(ms) == [k |-> "date", s |-> "", n |-> ms]

Fn(name) == [k |-> "function", s |-> name, n |-> 0]

Empty == [x \in {} |-> Undef]

Get(m, key) == IF key \in DOMAIN m THEN m[key] ELSE Undef

GetMap(m, key) == IF key \in DOMAIN m THEN m[key] ELSE Empty

Put(m, key, v) == [x \in DOMAIN m \cup {key} |-> IF x = key THEN v ELSE m[x]]

Del(m, key) == [x \in DOMAIN m \ {key} |-> m[x]]

---------------------------------------------------------------------------
(* The declaration handed to createTypedStore, and the ids in play *)

\* one row shape and the values shape; every field is <codec>.optional()
mapped ==
  [tables |-> [t |-> [s |-> "string", o |-> "json", d |-> "date"]],
   values |-> [v |-> "json", w |-> "date"]]

\* Object.entries order of the keys in play (shape keys in declaration order)
KeyOrder == <<"s", "o", "d", "x", "v", "w", "extra", "r1", "r2", "t", "u">>

KeyIndex(key) == CHOOSE i \in 1..Len(KeyOrder) : KeyOrder[i] = key

\* the first key of a non-empty key set in Object.entries order
FirstKey(keys) == CHOOSE a \in keys : \A b \in keys : KeyIndex(a) <= KeyIndex(b)

TableIds == {"t", "u"}

RowIds == {"r1", "r2"}

CellIds == {"s", "o", "d", "x"}

ValueIds == {"v", "w", "extra"}

\* how many distinct objects {s: ...} the application works with
NumObj == 2

ObjNames == <<"x", "y", "z">>

ObjPayloads == {ObjNames[i] : i \in 1..NumObj}

ObjIndex(payload) == CHOOSE i \in 1..NumObj : ObjNames[i] = payload

---------------------------------------------------------------------------
(* src/codec.ts and the zod schemas of the declaration *)

JSONstringify(value) == Str("{\"s\":\"" \o value.s \o "\"}")

JSONparseable(text) == \E p \in ObjPayloads : JSONstringify(Obj(p)) = text

JSONparse(text) == Obj(CHOOSE p \in ObjPayloads : JSONstringify(Obj(p)) = text)

\* schema.encode(value): [ok, v]; ok = FALSE is zod's thrown error
zodEncode(codec, value) ==
  IF value = Undef THEN [ok |-> TRUE, v |-> Undef]
  ELSE IF codec = "string" THEN [ok |-> value.k = "string", v |-> value]
  ELSE IF codec = "json" THEN
    IF value.k = "object" /\ value.s \in ObjPayloads
    THEN [ok |-> TRUE, v |-> JSONstringify(value)]
    ELSE [ok |-> FALSE, v |-> value]
  ELSE [ok |-> value.k = "date", v |-> value]

\* faulty variant of zodDecode: the stored scalar is handed back as it is
zodDecode_raw(codec, stored) == [ok |-> TRUE, v |-> stored]

\* schema.decode(stored): [ok, v]
zodDecode(codec, stored) ==
  IF stored = Undef THEN [ok |-> TRUE, v |-> Undef]
  ELSE IF codec = "string" THEN [ok |-> stored.k = "string", v |-> stored]
  ELSE IF codec = "json" THEN
    IF stored.k = "string" /\ JSONparseable(stored)
    THEN [ok |-> TRUE, v |-> JSONparse(stored)]
    ELSE [ok |-> FALSE, v |-> stored]
  ELSE [ok |-> stored.k = "date", v |-> stored]

\* rowSchema.encode(row): unknown keys are stripped, a field that fails throws
zodEncodeRow(shape, row) ==
  [ok |-> \A c \in DOMAIN shape : zodEncode(shape[c], Get(row, c)).ok,
   v |-> [c \in DOMAIN shape |-> zodEncode(shape[c], Get(row, c)).v]]

\* z.record(z.string(), rowSchema).encode(table)
zodEncodeTable(shape, table) ==
  [ok |-> \A r \in DOMAIN table : zodEncodeRow(shape, table[r]).ok,
   v |-> [r \in DOMAIN table |-> zodEncodeRow(shape, table[r]).v]]

\* rowSchema.decode(row): unknown keys are stripped, absent optional keys omitted
zodDecodeRow(shape, row) ==
  [ok |-> \A c \in DOMAIN shape : zodDecode(shape[c], Get(row, c)).ok,
   v |-> [c \in {c \in DOMAIN shape : Get(row, c) # Undef} |->
            zodDecode(shape[c], row[c]).v]]

\* z.record(z.string(), rowSchema).decode(table)
zodDecodeTable(shape, table) ==
  [ok |-> \A r \in DOMAIN table : zodDecodeRow(shape, table[r]).ok,
   v |-> [r \in DOMAIN table |-> zodDecodeRow(shape, table[r]).v]]

---------------------------------------------------------------------------
(* The TinyBase store behind the facade *)

\* what the store itself accepts as a cell or value
storeValid(cell) == cell.k \in {"string", "number", "boolean", "null"}

storeValidRow(row) == [c \in {c \in DOMAIN row : storeValid(row[c])} |-> row[c]]

storeValidTable(table) ==
  [r \in {r \in DOMAIN table : storeValidRow(table[r]) # Empty} |->
     storeValidRow(table[r])]

storeValidTables(tbs) ==
  [t \in {t \in DOMAIN tbs : storeValidTable(tbs[t]) # Empty} |->
     storeValidTable(tbs[t])]

storeHasRow(tableId, rowId) ==
  tableId \in DOMAIN tables /\ rowId \in DOMAIN tables[tableId]

storeGetTable(tableId) == GetMap(tables, tableId)

storeGetRow(tableId, rowId) == GetMap(GetMap(tables, tableId), rowId)

storeGetCell(tableId, rowId, cellId) == Get(storeGetRow(tableId, rowId), cellId)

storeGetValue(valueId) == Get(values, valueId)

\* store.setTables(tables): replaces all tables; no change when nothing valid
storeSetTables(tbs) ==
  IF storeValidTables(tbs) = Empty THEN tables ELSE storeValidTables(tbs)

\* store.setTable(tableId, table): replaces that table
storeSetTable(tableId, table) ==
  IF storeValidTable(table) = Empty THEN tables
  ELSE Put(tables, tableId, storeValidTable(table))

\* store.setRow(tableId, rowId, row): replaces that row
storeSetRow(tableId, rowId, row) ==
  IF storeValidRow(row) = Empty THEN tables
  ELSE Put(tables, tableId, Put(storeGetTable(tableId), rowId, storeValidRow(row)))

\* store.setCell(tableId, rowId, cellId, cell) with a literal cell
storeSetCell(tableId, rowId, cellId, cell) ==
  IF ~storeValid(cell) THEN tables
  ELSE Put(tables, tableId,
           Put(storeGetTable(tableId), rowId,
               Put(storeGetRow(tableId, rowId), cellId, cell)))

storeDelTables == Empty

storeDelTable(tableId) == Del(tables, tableId)

\* store.delRow: the table goes with its last row
storeDelRow(tableId, rowId) ==
  IF ~storeHasRow(tableId, rowId) THEN tables
  ELSE IF DOMAIN tables[tableId] = {rowId} THEN Del(tables, tableId)
  ELSE Put(tables, tableId, Del(tables[tableId], rowId))

\* store.delCell: the row goes with its last cell
storeDelCell(tableId, rowId, cellId) ==
  IF cellId \notin DOMAIN storeGetRow(tableId, rowId) THEN tables
  ELSE IF DOMAIN tables[tableId][rowId] = {cellId} THEN storeDelRow(tableId, rowId)
  ELSE Put(tables, tableId,
           Put(tables[tableId], rowId, Del(tables[tableId][rowId], cellId)))

\* store.setValues(values): replaces all values; no change when nothing valid
storeSetValues(vals) ==
  IF storeValidRow(vals) = Empty THEN values ELSE storeValidRow(vals)

storeSetValue(valueId, value) ==
  IF ~storeValid(value) THEN values ELSE Put(values, valueId, value)

storeDelValue(valueId) == Del(values, valueId)

storeDelValues == Empty

---------------------------------------------------------------------------
(* src/store.ts: guard, registry and codec helpers *)

isStorageCell(value) == value.k \in {"null", "string", "number", "boolean"}

\* faulty variant of assertStorageCell: the guard lets every value through
assertStorageCell_noGuard(value) == TRUE

\* TRUE: the guard returns; FALSE: it throws the storage-type error
assertStorageCell(value) == value = Undef \/ isStorageCell(value)

\* [ok, path, row]: the guard runs per cell in order, undefined cells are dropped
encodeRow(encoded, context) ==
  LET bad == {c \in DOMAIN encoded : ~assertStorageCell(encoded[c])}
  IN IF bad # {}
     THEN [ok |-> FALSE, path |-> context \o "." \o FirstKey(bad), row |-> Empty]
     ELSE [ok |-> TRUE, path |-> "",
           row |-> [c \in {c \in DOMAIN encoded : encoded[c] # Undef} |-> encoded[c]]]

\* [ok, path, table]
encodeTable(encoded, context) ==
  LET bad == {r \in DOMAIN encoded : ~encodeRow(encoded[r], context \o "." \o r).ok}
  IN IF bad # {}
     THEN [ok |-> FALSE,
           path |-> encodeRow(encoded[FirstKey(bad)], context \o "." \o FirstKey(bad)).path,
           table |-> Empty]
     ELSE [ok |-> TRUE, path |-> "",
           table |-> [r \in DOMAIN encoded |->
                       encodeRow(encoded[r], context \o "." \o r).row]]

\* faulty variant of getRowSchema: an undeclared table id gets an empty row schema
getRowSchema_lenient(tableId) ==
  [err |-> "ok",
   schema |-> IF tableId \in DOMAIN mapped.tables THEN mapped.tables[tableId] ELSE Empty]

\* [err, schema]
getRowSchema(tableId) ==
  IF tableId \notin DOMAIN mapped.tables
  THEN [err |-> "UnknownTable", schema |-> Empty]
  ELSE [err |-> "ok", schema |-> mapped.tables[tableId]]

\* faulty variant of getCellSchema: an undeclared table or cell id is taken as a
\* plain string cell
getCellSchema_lenient(tableId, cellId) ==
  [err |-> "ok",
   schema |-> IF tableId \in DOMAIN mapped.tables
              THEN IF cellId \in DOMAIN mapped.tables[tableId]
                   THEN mapped.tables[tableId][cellId]
                   ELSE "string"
              ELSE "string"]

\* [err, schema]
getCellSchema(tableId, cellId) ==
  IF tableId \notin DOMAIN mapped.tables
  THEN [err |-> "UnknownTable", schema |-> ""]
  ELSE IF cellId \notin DOMAIN mapped.tables[tableId]
  THEN [err |-> "UnknownCell", schema |-> ""]
  ELSE [err |-> "ok", schema |-> mapped.tables[tableId][cellId]]

\* faulty variant of tryGetValueSchema: an undeclared value id is taken as a
\* plain string value
tryGetValueSchema_lenient(valueId) ==
  [found |-> TRUE,
   schema |-> IF valueId \in DOMAIN mapped.values THEN mapped.values[valueId]
              ELSE "string"]

\* [found, schema]
tryGetValueSchema(valueId) ==
  IF valueId \in DOMAIN mapped.values
  THEN [found |-> TRUE, schema |-> mapped.values[valueId]]
  ELSE [found |-> FALSE, schema |-> ""]

\* cell(decoded) / value(decoded): the caller's mapper functions.  "next" maps an
\* object to the next one and anything else to itself, "undef" returns undefined,
\* "toDate" returns a Date
callMapper(f, decoded) ==
  IF f.s = "next" THEN
    IF decoded.k = "object" /\ decoded.s \in ObjPayloads
    THEN Obj(ObjNames[(ObjIndex(decoded.s) % NumObj) + 1])
    ELSE decoded
  ELSE IF f.s = "undef" THEN Undef
  ELSE DateV(0)

\* the outcome of a typed call: what it threw (or "ok"), the store it leaves,
\* and whether and with what the caller's mapper was invoked
Return(tbs, vals) ==
  [err |-> "ok", path |-> "", tables |-> tbs, values |-> vals,
   called |-> FALSE, arg |-> Undef]

Throw(err, path) ==
  [err |-> err, path |-> path, tables |-> tables, values |-> values,
   called |-> FALSE, arg |-> Undef]

Called(out, arg) == [out EXCEPT !.called = TRUE, !.arg = arg]

\* faulty variant of mapCell: the caller's function is handed the stored scalar
\* as it is
mapCell_rawArg(schema, f, encoded, context) ==
  LET nextDecoded == callMapper(f, encoded)
      nextEncoded == zodEncode(schema, nextDecoded)
  IN IF nextDecoded = Undef
     THEN [err |-> "ok", path |-> "", called |-> TRUE, arg |-> encoded, ret |-> Undef]
     ELSE IF ~nextEncoded.ok
     THEN [err |-> "Encode", path |-> "", called |-> TRUE, arg |-> encoded, ret |-> Undef]
     ELSE IF ~assertStorageCell(nextEncoded.v)
     THEN [err |-> "StorageType", path |-> context, called |-> TRUE,
           arg |-> encoded, ret |-> Undef]
     ELSE [err |-> "ok", path |-> "", called |-> TRUE, arg |-> encoded,
           ret |-> nextEncoded.v]

\* mapCell, the closure setCell hands to the store: [err, path, called, arg, ret]
mapCell(schema, f, encoded, context) ==
  LET decoded == IF encoded = Undef THEN [ok |-> TRUE, v |-> Undef]
                 ELSE zodDecode(schema, encoded)
      nextDecoded == callMapper(f, decoded.v)
      nextEncoded == zodEncode(schema, nextDecoded)
  IN IF ~decoded.ok
     THEN [err |-> "Decode", path |-> "", called |-> FALSE, arg |-> Undef, ret |-> Undef]
     ELSE IF nextDecoded = Undef
     THEN [err |-> "ok", path |-> "", called |-> TRUE, arg |-> decoded.v, ret |-> Undef]
     ELSE IF ~nextEncoded.ok
     THEN [err |-> "Encode", path |-> "", called |-> TRUE, arg |-> decoded.v, ret |-> Undef]
     ELSE IF ~assertStorageCell(nextEncoded.v)
     THEN [err |-> "StorageType", path |-> context, called |-> TRUE,
           arg |-> decoded.v, ret |-> Undef]
     ELSE [err |-> "ok", path |-> "", called |-> TRUE, arg |-> decoded.v,
           ret |-> nextEncoded.v]

\* mapValue, the closure setValue hands to the store: [err, path, called, arg, ret]
mapValue(schema, f, encoded, context) ==
  LET decoded == IF encoded = Undef THEN [ok |-> TRUE, v |-> Undef]
                 ELSE zodDecode(schema, encoded)
      nextDecoded == callMapper(f, decoded.v)
      nextEncoded == zodEncode(schema, nextDecoded)
  IN IF ~decoded.ok
     THEN [err |-> "Decode", path |-> "", called |-> FALSE, arg |-> Undef, ret |-> Undef]
     ELSE IF nextDecoded = Undef
     THEN [err |-> "ok", path |-> "", called |-> TRUE, arg |-> decoded.v, ret |-> Undef]
     ELSE IF ~nextEncoded.ok
     THEN [err |-> "Encode", path |-> "", called |-> TRUE, arg |-> decoded.v, ret |-> Undef]
     ELSE IF ~assertStorageCell(nextEncoded.v)
     THEN [err |-> "StorageType", path |-> context, called |-> TRUE,
           arg |-> decoded.v, ret |-> Undef]
     ELSE [err |-> "ok", path |-> "", called |-> TRUE, arg |-> decoded.v,
           ret |-> nextEncoded.v]

---------------------------------------------------------------------------
(* src/store.ts: typed reads, [err, v] *)

Value(v) == [err |-> "ok", v |-> v]

Raise(err) == [err |-> err, v |-> Undef]

getTables ==
  LET known == DOMAIN tables \cap DOMAIN mapped.tables
  IN IF \E t \in known : ~zodDecodeTable(mapped.tables[t], tables[t]).ok
     THEN Raise("Decode")
     ELSE Value([t \in known |-> zodDecodeTable(mapped.tables[t], tables[t]).v])

getTable(tableId) ==
  IF getRowSchema(tableId).err # "ok" THEN Raise(getRowSchema(tableId).err)
  ELSE IF ~zodDecodeTable(getRowSchema(tableId).schema, storeGetTable(tableId)).ok
  THEN Raise("Decode")
  ELSE Value(zodDecodeTable(getRowSchema(tableId).schema, storeGetTable(tableId)).v)

getRow(tableId, rowId) ==
  IF getRowSchema(tableId).err # "ok" THEN Raise(getRowSchema(tableId).err)
  ELSE IF storeGetRow(tableId, rowId) = Empty THEN Value(Undef)
  ELSE IF ~zodDecodeRow(getRowSchema(tableId).schema, storeGetRow(tableId, rowId)).ok
  THEN Raise("Decode")
  ELSE Value(zodDecodeRow(getRowSchema(tableId).schema, storeGetRow(tableId, rowId)).v)

getRowOrThrow(tableId, rowId) ==
  IF getRow(tableId, rowId).err = "ok" /\ getRow(tableId, rowId).v = Undef
  THEN Raise("MissingRow")
  ELSE getRow(tableId, rowId)

getCell(tableId, rowId, cellId) ==
  IF getCellSchema(tableId, cellId).err # "ok"
  THEN Raise(getCellSchema(tableId, cellId).err)
  ELSE IF storeGetCell(tableId, rowId, cellId) = Undef THEN Value(Undef)
  ELSE IF ~zodDecode(getCellSchema(tableId, cellId).schema,
                     storeGetCell(tableId, rowId, cellId)).ok
  THEN Raise("Decode")
  ELSE Value(zodDecode(getCellSchema(tableId, cellId).schema,
                       storeGetCell(tableId, rowId, cellId)).v)

\* faulty variant of hasRow: store.hasTable is asked instead
hasRow_hasTable(tableId, rowId) == tableId \in DOMAIN tables

hasRow(tableId, rowId) == storeHasRow(tableId, rowId)

getValues ==
  LET known == DOMAIN mapped.values \cap DOMAIN values
  IN IF \E id \in known : ~zodDecode(mapped.values[id], values[id]).ok
     THEN Raise("Decode")
     ELSE Value([id \in known |-> zodDecode(mapped.values[id], values[id]).v])

getValue(valueId) ==
  IF storeGetValue(valueId) = Undef THEN Value(Undef)
  ELSE IF ~tryGetValueSchema(valueId).found THEN Value(Undef)
  ELSE IF ~zodDecode(tryGetValueSchema(valueId).schema, storeGetValue(valueId)).ok
  THEN Raise("Decode")
  ELSE Value(zodDecode(tryGetValueSchema(valueId).schema, storeGetValue(valueId)).v)

storeGetValueIds == DOMAIN values

\* faulty variant of getValueIds: the store's id list is returned unfiltered
getValueIds_unfiltered == storeGetValueIds

\* the ids as a set; the filter keeps the store's order
getValueIds == {id \in storeGetValueIds : id \in DOMAIN mapped.values}

---------------------------------------------------------------------------
(* src/store.ts: typed writes, each the outcome of one call *)

\* faulty variant of CellPath: the row id is left out of the context
CellPath_noRow(tableId, rowId, cellId) == "tables." \o tableId \o "." \o cellId

CellPath(tableId, rowId, cellId) ==
  "tables." \o tableId \o "." \o rowId \o "." \o cellId

\* what encoding one declared table of a setTables / setTable input does
tableOutcome(tableId, table) ==
  LET zod == zodEncodeTable(mapped.tables[tableId], table)
      enc == encodeTable(zod.v, "tables." \o tableId)
  IN IF ~zod.ok THEN [err |-> "Encode", path |-> "", table |-> Empty]
     ELSE IF ~enc.ok THEN [err |-> "StorageType", path |-> enc.path, table |-> Empty]
     ELSE [err |-> "ok", path |-> "", table |-> enc.table]

\* faulty variant of setTables: an undeclared table id in the input throws
setTables_strict(tbs) ==
  LET known == {t \in DOMAIN tbs : t \in DOMAIN mapped.tables}
      failed == {t \in known : tableOutcome(t, tbs[t]).err # "ok"}
  IN IF DOMAIN tbs # known THEN Throw("UnknownTable", "")
     ELSE IF failed # {}
     THEN Throw(tableOutcome(FirstKey(failed), tbs[FirstKey(failed)]).err,
                tableOutcome(FirstKey(failed), tbs[FirstKey(failed)]).path)
     ELSE Return(storeSetTables([t \in known |-> tableOutcome(t, tbs[t]).table]),
                 values)

\* faulty variant of setTables: the tables stored under undeclared ids are
\* carried over into the new content
setTables_keepUnknown(tbs) ==
  LET known == {t \in DOMAIN tbs : t \in DOMAIN mapped.tables}
      failed == {t \in known : tableOutcome(t, tbs[t]).err # "ok"}
      kept == DOMAIN tables \ DOMAIN mapped.tables
  IN IF failed # {}
     THEN Throw(tableOutcome(FirstKey(failed), tbs[FirstKey(failed)]).err,
                tableOutcome(FirstKey(failed), tbs[FirstKey(failed)]).path)
     ELSE Return(storeSetTables([t \in known \cup kept |->
                                   IF t \in known THEN tableOutcome(t, tbs[t]).table
                                   ELSE tables[t]]),
                 values)

setTables(tbs) ==
  LET known == {t \in DOMAIN tbs : t \in DOMAIN mapped.tables}
      failed == {t \in known : tableOutcome(t, tbs[t]).err # "ok"}
  IN IF failed # {}
     THEN Throw(tableOutcome(FirstKey(failed), tbs[FirstKey(failed)]).err,
                tableOutcome(FirstKey(failed), tbs[FirstKey(failed)]).path)
     ELSE Return(storeSetTables([t \in known |-> tableOutcome(t, tbs[t]).table]),
                 values)

delTables == Return(storeDelTables, values)

setTable(tableId, table) ==
  IF getRowSchema(tableId).err # "ok" THEN Throw(getRowSchema(tableId).err, "")
  ELSE IF tableOutcome(tableId, table).err # "ok"
  THEN Throw(tableOutcome(tableId, table).err, tableOutcome(tableId, table).path)
  ELSE Return(storeSetTable(tableId, tableOutcome(tableId, table).table), values)

delTable(tableId) == Return(storeDelTable(tableId), values)

\* faulty variant of setRow: the fields are written one by one, so those before
\* the rejected one are stored when the guard throws
setRow_fieldByField(tableId, rowId, row) ==
  LET zod == zodEncodeRow(getRowSchema(tableId).schema, row)
      enc == encodeRow(zod.v, "tables." \o tableId \o "." \o rowId)
      good == [c \in {c \in DOMAIN zod.v : isStorageCell(zod.v[c])} |-> zod.v[c]]
  IN IF getRowSchema(tableId).err # "ok" THEN Throw(getRowSchema(tableId).err, "")
     ELSE IF ~zod.ok THEN Throw("Encode", "")
     ELSE IF ~enc.ok
     THEN [Throw("StorageType", enc.path) EXCEPT
             !.tables = storeSetRow(tableId, rowId, good)]
     ELSE Return(storeSetRow(tableId, rowId, enc.row), values)

setRow(tableId, rowId, row) ==
  LET zod == zodEncodeRow(getRowSchema(tableId).schema, row)
      enc == encodeRow(zod.v, "tables." \o tableId \o "." \o rowId)
  IN IF getRowSchema(tableId).err # "ok" THEN Throw(getRowSchema(tableId).err, "")
     ELSE IF ~zod.ok THEN Throw("Encode", "")
     ELSE IF ~enc.ok THEN Throw("StorageType", enc.path)
     ELSE Return(storeSetRow(tableId, rowId, enc.row), values)

setPartialRow(tableId, rowId, update) ==
  LET row == getRowOrThrow(tableId, rowId)
  IN IF row.err # "ok" THEN Throw(row.err, "")
     ELSE setRow(tableId, rowId,
                 [c \in DOMAIN row.v \cup DOMAIN update |->
                    IF c \in DOMAIN update THEN update[c] ELSE row.v[c]])

delRow(tableId, rowId) == Return(storeDelRow(tableId, rowId), values)

\* faulty variant of setCell: no missing-row check, as the plain store behaves
setCell_noRowGuard(tableId, rowId, cellId, cell) ==
  LET schema == getCellSchema(tableId, cellId)
      context == CellPath(tableId, rowId, cellId)
      mapped_ == mapCell(schema.schema, cell, storeGetCell(tableId, rowId, cellId), context)
      encoded == zodEncode(schema.schema, cell)
  IN IF schema.err # "ok" THEN Throw(schema.err, "")
     ELSE IF cell.k = "function" THEN
       IF mapped_.err # "ok"
       THEN [Throw(mapped_.err, mapped_.path) EXCEPT
               !.called = mapped_.called, !.arg = mapped_.arg]
       ELSE Called(Return(storeSetCell(tableId, rowId, cellId, mapped_.ret), values),
                   mapped_.arg)
     ELSE IF ~encoded.ok THEN Throw("Encode", "")
     ELSE IF ~assertStorageCell(encoded.v) THEN Throw("StorageType", context)
     ELSE IF encoded.v = Undef
     THEN Return(storeDelCell(tableId, rowId, cellId), values)
     ELSE Return(storeSetCell(tableId, rowId, cellId, encoded.v), values)

setCell(tableId, rowId, cellId, cell) ==
  LET schema == getCellSchema(tableId, cellId)
      context == CellPath(tableId, rowId, cellId)
      mapped_ == mapCell(schema.schema, cell, storeGetCell(tableId, rowId, cellId), context)
      encoded == zodEncode(schema.schema, cell)
  IN IF ~storeHasRow(tableId, rowId) THEN Throw("MissingRow", "")
     ELSE IF schema.err # "ok" THEN Throw(schema.err, "")
     ELSE IF cell.k = "function" THEN
       IF mapped_.err # "ok"
       THEN [Throw(mapped_.err, mapped_.path) EXCEPT
               !.called = mapped_.called, !.arg = mapped_.arg]
       ELSE Called(Return(storeSetCell(tableId, rowId, cellId, mapped_.ret), values),
                   mapped_.arg)
     ELSE IF ~encoded.ok THEN Throw("Encode", "")
     ELSE IF ~assertStorageCell(encoded.v) THEN Throw("StorageType", context)
     ELSE IF encoded.v = Undef
     THEN Return(storeDelCell(tableId, rowId, cellId), values)
     ELSE Return(storeSetCell(tableId, rowId, cellId, encoded.v), values)

delCell(tableId, rowId, cellId) ==
  Return(storeDelCell(tableId, rowId, cellId), values)

\* what encoding one declared value of a setValues input does
valueOutcome(valueId, value) ==
  LET encodedValue == zodEncode(tryGetValueSchema(valueId).schema, value)
  IN IF ~encodedValue.ok THEN [err |-> "Encode", path |-> "", v |-> Undef]
     ELSE IF ~assertStorageCell(encodedValue.v)
     THEN [err |-> "StorageType", path |-> "values." \o valueId, v |-> Undef]
     ELSE [err |-> "ok", path |-> "", v |-> encodedValue.v]

setValues(vals) ==
  LET known == {id \in DOMAIN vals : tryGetValueSchema(id).found}
      failed == {id \in known : valueOutcome(id, vals[id]).err # "ok"}
  IN IF failed # {}
     THEN Throw(valueOutcome(FirstKey(failed), vals[FirstKey(failed)]).err,
                valueOutcome(FirstKey(failed), vals[FirstKey(failed)]).path)
     ELSE Return(tables,
                 storeSetValues(
                   [id \in {id \in known : valueOutcome(id, vals[id]).v # Undef} |->
                      valueOutcome(id, vals[id]).v]))

delValues == Return(tables, storeDelValues)

setValue(valueId, value) ==
  LET valueSchema == tryGetValueSchema(valueId)
      context == "values." \o valueId
      mapped_ == mapValue(valueSchema.schema, value, storeGetValue(valueId), context)
      encoded == zodEncode(valueSchema.schema, value)
  IN IF ~valueSchema.found THEN Return(tables, values)
     ELSE IF value.k = "function" THEN
       IF mapped_.err # "ok"
       THEN [Throw(mapped_.err, mapped_.path) EXCEPT
               !.called = mapped_.called, !.arg = mapped_.arg]
       ELSE Called(Return(tables, storeSetValue(valueId, mapped_.ret)), mapped_.arg)
     ELSE IF ~encoded.ok THEN Throw("Encode", "")
     ELSE IF ~assertStorageCell(encoded.v) THEN Throw("StorageType", context)
     ELSE IF encoded.v = Undef THEN Return(tables, storeDelValue(valueId))
     ELSE Return(tables, storeSetValue(valueId, encoded.v))

\* faulty variant of delValue: an undeclared value id is ignored, as setValue
\* ignores it
delValue_declaredOnly(valueId) ==
  IF tryGetValueSchema(valueId).found THEN Return(tables, storeDelValue(valueId))
  ELSE Return(tables, values)

delValue(valueId) == Return(tables, storeDelValue(valueId))

\* store.setContent([tables, values]): each half replaces the store's; an empty
\* half deletes, a half with nothing valid in it changes nothing
storeSetContent(tbs, vals) ==
  [tables |-> IF tbs = Empty THEN storeDelTables ELSE storeSetTables(tbs),
   values |-> IF vals = Empty THEN storeDelValues ELSE storeSetValues(vals)]

\* setContent([tables, values]): both halves are encoded as setTables and
\* setValues encode them and handed to the store as one content
setContent(tbs, vals) ==
  LET known == {t \in DOMAIN tbs : t \in DOMAIN mapped.tables}
      failed == {t \in known : tableOutcome(t, tbs[t]).err # "ok"}
      knownValues == {id \in DOMAIN vals : tryGetValueSchema(id).found}
      failedValues == {id \in knownValues : valueOutcome(id, vals[id]).err # "ok"}
      content ==
        storeSetContent(
          [t \in known |-> tableOutcome(t, tbs[t]).table],
          [id \in {id \in knownValues : valueOutcome(id, vals[id]).v # Undef} |->
             valueOutcome(id, vals[id]).v])
  IN IF failed # {}
     THEN Throw(tableOutcome(FirstKey(failed), tbs[FirstKey(failed)]).err,
                tableOutcome(FirstKey(failed), tbs[FirstKey(failed)]).path)
     ELSE IF failedValues # {}
     THEN Throw(valueOutcome(FirstKey(failedValues), vals[FirstKey(failedValues)]).err,
                valueOutcome(FirstKey(failedValues), vals[FirstKey(failedValues)]).path)
     ELSE Return(content.tables, content.values)

---------------------------------------------------------------------------
(* The calls the application makes *)

Mappers == {Fn("next"), Fn("undef"), Fn("toDate")}

\* <<cellId, literal or mapper>> pairs tried by setCell
CellInputs ==
  ({"s"} \X ({Str("a"), Undef, DateV(0)} \cup Mappers))
    \cup ({"o"} \X {Obj("x"), Undef, Fn("next"), Fn("undef")})
    \cup ({"d"} \X {DateV(0), Undef, Fn("toDate")})
    \cup ({"x"} \X {Str("a"), Fn("next")})

RowInputs ==
  {Empty,
   [s |-> Str("a")],
   [s |-> Undef, o |-> Undef],
   [s |-> Str("a"), o |-> Obj("x")],
   [s |-> Str("a"), d |-> DateV(0)],
   [s |-> Str("a"), x |-> Str("junk")],
   [s |-> Obj("x")]}

TableInputs ==
  {Empty,
   [r1 |-> [s |-> Str("a")]],
   [r1 |-> [s |-> Str("a"), o |-> Obj("y")], r2 |-> [s |-> Undef]],
   [r1 |-> [s |-> Undef]],
   [r1 |-> [s |-> Str("a")], r2 |-> [d |-> DateV(0)]],
   [r1 |-> [s |-> Str("a")], r2 |-> [o |-> Str("a")]]}

TablesInputs ==
  {Empty,
   [u |-> [r2 |-> [x |-> Str("nope")]]]}
    \cup {[t |-> table] : table \in TableInputs}
    \cup {[t |-> table, u |-> [r2 |-> [x |-> Str("nope")]]] :
            table \in {[r2 |-> [s |-> Str("a")]], [r1 |-> [s |-> Undef]],
                       [r1 |-> [s |-> Str("a"), d |-> DateV(0)]]}}

UpdateInputs ==
  {Empty, [o |-> Obj("y")], [o |-> Undef], [s |-> Undef, o |-> Undef],
   [d |-> DateV(0)], [o |-> Str("a")]}

ValuesInputs ==
  {Empty,
   [v |-> Obj("x")],
   [v |-> Undef],
   [v |-> Obj("y"), extra |-> Str("nope")],
   [extra |-> Str("nope")],
   [v |-> Obj("x"), w |-> DateV(0)],
   [v |-> Str("a")]}

\* <<valueId, literal or mapper>> pairs tried by setValue
ValueInputs ==
  ({"v"} \X ({Obj("x"), Undef, Str("a")} \cup Mappers))
    \cup ({"w"} \X {DateV(0), Undef, Fn("toDate")})
    \cup ({"extra"} \X {Str("a"), Fn("next")})

\* <<tables, values>> pairs tried by setContent
ContentInputs ==
  {<<[t |-> [r1 |-> [s |-> Str("a"), o |-> Obj("x")]]], [v |-> Obj("x")]>>,
   <<[t |-> [r2 |-> [s |-> Str("a")]]], [v |-> Obj("y")]>>,
   <<[t |-> [r1 |-> [s |-> Undef]]], [v |-> Undef]>>,
   <<Empty, Empty>>,
   <<[u |-> [r2 |-> [x |-> Str("nope")]]], [extra |-> Str("nope")]>>,
   <<[t |-> [r1 |-> [s |-> Str("a"), d |-> DateV(0)]]], [v |-> Obj("x")]>>,
   <<[t |-> [r1 |-> [s |-> Str("a")]]], [v |-> Str("a")]>>}

NoId == "-"

\* the record of the call in progress: its arguments, what it threw (or "ok"),
\* the mapper invocation, and the store as it was when the call was made
Call(op, tableId, rowId, cellId, inp, out) ==
  [op |-> op, t |-> tableId, r |-> rowId, c |-> cellId, inp |-> inp,
   err |-> out.err, path |-> out.path, called |-> out.called, arg |-> out.arg,
   tablesBefore |-> tables, valuesBefore |-> values]

Idle ==
  [op |-> "idle", t |-> NoId, r |-> NoId, c |-> NoId, inp |-> Undef,
   err |-> "ok", path |-> "", called |-> FALSE, arg |-> Undef,
   tablesBefore |-> Empty, valuesBefore |-> Empty]

\* one typed call made by the application: the store it leaves and its record
Do(op, tableId, rowId, cellId, inp, out) ==
  /\ last = Idle
  /\ tables' = out.tables
  /\ values' = out.values
  /\ last' = Call(op, tableId, rowId, cellId, inp, out)
  /\ UNCHANGED lvars

Init ==
  /\ tables = Empty
  /\ values = Empty
  /\ last = Idle
  /\ transactions = 0
  /\ changedCells = Empty
  /\ changedValues = Empty
  /\ phase = "none"
  /\ doRollback = FALSE
  /\ inActions = FALSE
  /\ opened = 0
  /\ listeners = <<>>
  /\ log = <<>>
  /\ heard = Empty
  /\ writes = <<>>

\* the call has returned or thrown; the application goes on to its next call
Settle ==
  /\ last # Idle
  /\ last' = Idle
  /\ UNCHANGED <<tables, values, lvars>>

SetTables == \E tbs \in TablesInputs :
  Do("setTables", NoId, NoId, NoId, tbs, setTables(tbs))

DelTables == Do("delTables", NoId, NoId, NoId, Undef, delTables)

SetTable == \E tableId \in TableIds, table \in TableInputs :
  Do("setTable", tableId, NoId, NoId, table, setTable(tableId, table))

DelTable == \E tableId \in TableIds :
  Do("delTable", tableId, NoId, NoId, Undef, delTable(tableId))

SetRow == \E tableId \in TableIds, rowId \in RowIds, row \in RowInputs :
  Do("setRow", tableId, rowId, NoId, row, setRow(tableId, rowId, row))

SetPartialRow == \E tableId \in TableIds, rowId \in RowIds, update \in UpdateInputs :
  Do("setPartialRow", tableId, rowId, NoId, update,
     setPartialRow(tableId, rowId, update))

DelRow == \E tableId \in TableIds, rowId \in RowIds :
  Do("delRow", tableId, rowId, NoId, Undef, delRow(tableId, rowId))

SetCell == \E tableId \in TableIds, rowId \in RowIds, ci \in CellInputs :
  Do("setCell", tableId, rowId, ci[1], ci[2], setCell(tableId, rowId, ci[1], ci[2]))

DelCell == \E tableId \in TableIds, rowId \in RowIds, cellId \in CellIds :
  Do("delCell", tableId, rowId, cellId, Undef, delCell(tableId, rowId, cellId))

SetValues == \E vals \in ValuesInputs :
  Do("setValues", NoId, NoId, NoId, vals, setValues(vals))

DelValues == Do("delValues", NoId, NoId, NoId, Undef, delValues)

SetValue == \E vi \in ValueInputs :
  Do("setValue", NoId, NoId, vi[1], vi[2], setValue(vi[1], vi[2]))

DelValue == \E valueId \in ValueIds :
  Do("delValue", NoId, NoId, valueId, Undef, delValue(valueId))

SetContent == \E content \in ContentInputs :
  Do("setContent", NoId, NoId, NoId, content, setContent(content[1], content[2]))

\* another party writes the underlying store directly, under undeclared ids
StoreSetRow ==
  Do("store.setRow", "u", "r1", NoId, [x |-> Str("raw")],
     Return(storeSetRow("u", "r1", [x |-> Str("raw")]), values))

StoreSetValue ==
  Do("store.setValue", NoId, NoId, "extra", Str("raw"),
     Return(tables, storeSetValue("extra", Str("raw"))))

Next ==
  \/ SetTables \/ DelTables \/ SetTable \/ DelTable
  \/ SetRow \/ SetPartialRow \/ DelRow \/ SetCell \/ DelCell
  \/ SetValues \/ DelValues \/ SetValue \/ DelValue
  \/ SetContent
  \/ StoreSetRow \/ StoreSetValue
  \/ Settle

Spec == Init /\ [][Next]_vars

---------------------------------------------------------------------------
(* The store's transactions, as the facade's calls drive them.  Every store *)
(* write runs in a transaction: store.transaction(actions) is              *)
(* startTransaction(), actions(), finishTransaction(), with nothing that    *)
(* catches what actions throws.  The outermost finishTransaction calls the  *)
(* mutator listeners, then asks doRollback, then calls the other listeners. *)

\* the bound on the store's transaction counter
MaxTransactions == 2

\* the bound on the writes the application makes in one open transaction
MaxWrites == 2

CellKeys == TableIds \X RowIds \X CellIds

CellAt(tbs, key) == Get(GetMap(GetMap(tbs, key[1]), key[2]), key[3])

\* the store notes a cell's old content at its first change in the transaction
cellsChanged(before, after) ==
  [key \in DOMAIN changedCells
          \cup {key \in CellKeys : CellAt(before, key) # CellAt(after, key)} |->
     IF key \in DOMAIN changedCells THEN changedCells[key] ELSE CellAt(before, key)]

valuesChanged(before, after) ==
  [id \in DOMAIN changedValues
          \cup {id \in ValueIds : Get(before, id) # Get(after, id)} |->
     IF id \in DOMAIN changedValues THEN changedValues[id] ELSE Get(before, id)]

OldCell(key) ==
  IF key \in DOMAIN changedCells THEN changedCells[key] ELSE CellAt(tables, key)

OldValue(id) ==
  IF id \in DOMAIN changedValues THEN changedValues[id] ELSE Get(values, id)

\* the content the open transaction started from; a rollback puts every
\* changed cell and value back to it
tablesAtStart ==
  storeValidTables(
    [t \in TableIds |->
       [r \in RowIds |->
          [c \in {c \in CellIds : OldCell(<<t, r, c>>) # Undef} |->
             OldCell(<<t, r, c>>)]]])

valuesAtStart ==
  [id \in {id \in ValueIds : OldValue(id) # Undef} |-> OldValue(id)]

\* the cells and values whose content differs from the transaction's start:
\* those the listeners are called for
ChangedCellKeys == {key \in DOMAIN changedCells : changedCells[key] # CellAt(tables, key)}

ChangedValueIds == {id \in DOMAIN changedValues : changedValues[id] # Get(values, id)}

\* getCellChange / getValueChange, as the store hands them to a listener
storeGetCellChange(key) ==
  [changed |-> key \in DOMAIN changedCells,
   old |-> OldCell(key),
   new |-> CellAt(tables, key)]

storeGetValueChange(id) ==
  [changed |-> id \in DOMAIN changedValues,
   old |-> OldValue(id),
   new |-> Get(values, id)]

---------------------------------------------------------------------------
(* src/store.ts: listener registration and the callbacks handed to the store *)

\* faulty variant of typedStore: callbacks are handed the underlying store
typedStore_underlying == "store"

\* the facade object, as opposed to the underlying "store"
typedStore == "typedStore"

\* faulty variant of tryGetCellSchema: the codec of one field for every id
tryGetCellSchema_fixed(tableId, cellId) == [found |-> TRUE, schema |-> "string"]

\* [found, schema]
tryGetCellSchema(tableId, cellId) ==
  IF tableId \in DOMAIN mapped.tables /\ cellId \in DOMAIN mapped.tables[tableId]
  THEN [found |-> TRUE, schema |-> mapped.tables[tableId][cellId]]
  ELSE [found |-> FALSE, schema |-> ""]

\* faulty variant of decodeOrPass: the stored scalar is delivered as it is
decodeOrPass_raw(schema, stored) == stored

\* x === undefined ? undefined : schema ? schema.decode(x) : x
decodeOrPass(schema, stored) ==
  IF stored = Undef THEN Undef
  ELSE IF schema.found THEN zodDecode(schema.schema, stored).v
  ELSE stored

\* the accessor a cell listener is handed in place of the store's
getTypedCellChange(tableId, rowId, cellId) ==
  LET change == storeGetCellChange(<<tableId, rowId, cellId>>)
      schema == tryGetCellSchema(tableId, cellId)
  IN [changed |-> change.changed,
      old |-> decodeOrPass(schema, change.old),
      new |-> decodeOrPass(schema, change.new)]

getTypedValueChange(valueId) ==
  LET change == storeGetValueChange(valueId)
      schema == tryGetValueSchema(valueId)
  IN [changed |-> change.changed,
      old |-> decodeOrPass(schema, change.old),
      new |-> decodeOrPass(schema, change.new)]

\* what the callback registered by addCellListener is called with, given what
\* the store calls the facade's closure with
cellListener(a) ==
  LET cellSchema == tryGetCellSchema(a.tableId, a.cellId)
  IN [store |-> typedStore, tableId |-> a.tableId, rowId |-> a.rowId,
      cellId |-> a.cellId,
      newCell |-> decodeOrPass(cellSchema, a.newCell),
      oldCell |-> decodeOrPass(cellSchema, a.oldCell)]

valueListener(a) ==
  LET valueSchema == tryGetValueSchema(a.valueId)
  IN [store |-> typedStore, valueId |-> a.valueId,
      newValue |-> decodeOrPass(valueSchema, a.newValue),
      oldValue |-> decodeOrPass(valueSchema, a.oldValue)]

tablesListener(a) == [store |-> typedStore]

\* a registration as the store keeps it: whose callback, on what, in which round
addCellListener(name, tableId, rowId, cellId, mutator) ==
  [l |-> name, kind |-> "cell", ids |-> <<tableId, rowId, cellId>>, mutator |-> mutator]

addValueListener(name, valueId, mutator) ==
  [l |-> name, kind |-> "value", ids |-> <<valueId>>, mutator |-> mutator]

\* faulty variant of addTablesListener: the mutator flag is not passed on
addTablesListener_noFlag(name, mutator) ==
  [l |-> name, kind |-> "tables", ids |-> <<>>, mutator |-> FALSE]

addTablesListener(name, mutator) ==
  [l |-> name, kind |-> "tables", ids |-> <<>>, mutator |-> mutator]

\* IdOrNull: null listens to every id
Null == "null"

Matches(ids, key) == \A i \in 1..Len(ids) : ids[i] = Null \/ ids[i] = key[i]

---------------------------------------------------------------------------
(* The listeners the application registers, and what the store calls *)

TableOrder == <<"t", "u">>

RowOrder == <<"r1", "r2">>

CellOrder == <<"s", "o", "d", "x">>

ValueOrder == <<"v", "w", "extra">>

\* the cell keys in the order the store walks its changes
CellKeySeq ==
  [i \in 1..16 |-> <<TableOrder[((i - 1) \div 8) + 1],
                     RowOrder[(((i - 1) \div 4) % 2) + 1],
                     CellOrder[((i - 1) % 4) + 1]>>]

RECURSIVE Concat(_)
Concat(seqs) == IF seqs = <<>> THEN <<>> ELSE Head(seqs) \o Concat(Tail(seqs))

\* the registrations of one kind made for one round, in registration order
Registered(kind, mutator, key) ==
  SelectSeq(listeners,
            LAMBDA reg : reg.kind = kind /\ reg.mutator = mutator /\ Matches(reg.ids, key))

\* the application's cell listener called through the closure of
\* addCellListener: it keeps what it was handed, what the accessor returns for
\* the changed cell and for the cell t.r1.o, and what it was told last time
CellEvent(reg, key) ==
  LET a == [store |-> "store", tableId |-> key[1], rowId |-> key[2], cellId |-> key[3],
            newCell |-> CellAt(tables, key), oldCell |-> changedCells[key]]
      d == cellListener(a)
  IN [l |-> reg.l, kind |-> "cell", in |-> a, out |-> d,
      change |-> getTypedCellChange(d.tableId, d.rowId, d.cellId),
      other |-> getTypedCellChange("t", "r1", "o"),
      told |-> key \in DOMAIN heard, prev |-> Get(heard, key),
      seen |-> Undef]

ValueEvent(reg, id) ==
  LET a == [store |-> "store", valueId |-> id,
            newValue |-> Get(values, id), oldValue |-> changedValues[id]]
      d == valueListener(a)
  IN [l |-> reg.l, kind |-> "value", in |-> a, out |-> d,
      change |-> getTypedValueChange(d.valueId),
      other |-> getTypedValueChange("v"),
      told |-> FALSE, prev |-> Undef,
      seen |-> Undef]

\* the application's tables listener reads the cell t.r1.o through the facade
TablesEvent(reg) ==
  LET a == [store |-> "store"]
      d == tablesListener(a)
  IN [l |-> reg.l, kind |-> "tables", in |-> a, out |-> d,
      change |-> Undef, other |-> Undef, told |-> FALSE, prev |-> Undef,
      seen |-> getCell("t", "r1", "o").v]

\* the calls of one round: cell listeners for every changed cell, then the
\* tables listeners, then value listeners for every changed value
cellCalls(mutator) ==
  LET keys == SelectSeq(CellKeySeq, LAMBDA key : key \in ChangedCellKeys)
  IN Concat([i \in 1..Len(keys) |->
               LET regs == Registered("cell", mutator, keys[i])
               IN [j \in 1..Len(regs) |-> CellEvent(regs[j], keys[i])]])

tablesCalls(mutator) ==
  LET regs == Registered("tables", mutator, <<>>)
  IN IF ChangedCellKeys = {} THEN <<>>
     ELSE [j \in 1..Len(regs) |-> TablesEvent(regs[j])]

valueCalls(mutator) ==
  LET ids == SelectSeq(ValueOrder, LAMBDA id : id \in ChangedValueIds)
  IN Concat([i \in 1..Len(ids) |->
               LET regs == Registered("value", mutator, <<ids[i]>>)
               IN [j \in 1..Len(regs) |-> ValueEvent(regs[j], ids[i])]])

---------------------------------------------------------------------------
(* The other listener registrations of the facade *)

valuesListener(a) == [store |-> typedStore]

valueIdsListener(a) == [store |-> typedStore, getIdChanges |-> a.getIdChanges]

hasValuesListener(a) == [store |-> typedStore, hasValues |-> a.hasValues]

hasValueListener(a) ==
  [store |-> typedStore, valueId |-> a.valueId, hasValue |-> a.hasValue]

tableListener(a) == [store |-> typedStore, tableId |-> a.tableId]

rowListener(a) == [store |-> typedStore, tableId |-> a.tableId, rowId |-> a.rowId]

tableIdsListener(a) == [store |-> typedStore, getIdChanges |-> a.getIdChanges]

tableCellIdsListener(a) ==
  [store |-> typedStore, tableId |-> a.tableId, getIdChanges |-> a.getIdChanges]

rowIdsListener(a) ==
  [store |-> typedStore, tableId |-> a.tableId, getIdChanges |-> a.getIdChanges]

cellIdsListener(a) ==
  [store |-> typedStore, tableId |-> a.tableId, rowId |-> a.rowId,
   getIdChanges |-> a.getIdChanges]

sortedRowIdsListener(a) ==
  [store |-> typedStore, tableId |-> a.tableId, cellId |-> a.cellId,
   descending |-> a.descending, offset |-> a.offset, limit |-> a.limit,
   sortedRowIds |-> a.sortedRowIds]

hasTablesListener(a) == [store |-> typedStore, hasTables |-> a.hasTables]

hasTableListener(a) ==
  [store |-> typedStore, tableId |-> a.tableId, hasTable |-> a.hasTable]

hasRowListener(a) ==
  [store |-> typedStore, tableId |-> a.tableId, rowId |-> a.rowId, hasRow |-> a.hasRow]

hasCellListener(a) ==
  [store |-> typedStore, tableId |-> a.tableId, rowId |-> a.rowId,
   cellId |-> a.cellId, hasCell |-> a.hasCell]

\* the registrations: what the store keeps of each
Registration(name, kind, ids, mutator) ==
  [l |-> name, kind |-> kind, ids |-> ids, mutator |-> mutator]

addValuesListener(name, mutator) == Registration(name, "values", <<>>, mutator)

addValueIdsListener(name, mutator) == Registration(name, "valueIds", <<>>, mutator)

addHasValuesListener(name, mutator) == Registration(name, "hasValues", <<>>, mutator)

addHasValueListener(name, valueId, mutator) ==
  Registration(name, "hasValue", <<valueId>>, mutator)

addTableListener(name, tableId, mutator) ==
  Registration(name, "table", <<tableId>>, mutator)

addRowListener(name, tableId, rowId, mutator) ==
  Registration(name, "row", <<tableId, rowId>>, mutator)

addTableIdsListener(name, mutator) == Registration(name, "tableIds", <<>>, mutator)

addTableCellIdsListener(name, tableId, mutator) ==
  Registration(name, "tableCellIds", <<tableId>>, mutator)

addRowIdsListener(name, tableId, mutator) ==
  Registration(name, "rowIds", <<tableId>>, mutator)

addCellIdsListener(name, tableId, rowId, mutator) ==
  Registration(name, "cellIds", <<tableId, rowId>>, mutator)

\* (tableId, cellId, descending = false, offset = 0, limit = undefined, listener)
addSortedRowIdsListener(name, tableId, cellId, mutator) ==
  Registration(name, "sortedRowIds", <<tableId, cellId>>, mutator)

addHasTablesListener(name, mutator) == Registration(name, "hasTables", <<>>, mutator)

addHasTableListener(name, tableId, mutator) ==
  Registration(name, "hasTable", <<tableId>>, mutator)

addHasRowListener(name, tableId, rowId, mutator) ==
  Registration(name, "hasRow", <<tableId, rowId>>, mutator)

addHasCellListener(name, tableId, rowId, cellId, mutator) ==
  Registration(name, "hasCell", <<tableId, rowId, cellId>>, mutator)

\* the closure the facade registered for a listener of the kind
Deliver(kind, a) ==
  CASE kind = "values" -> valuesListener(a)
    [] kind = "valueIds" -> valueIdsListener(a)
    [] kind = "hasValues" -> hasValuesListener(a)
    [] kind = "hasValue" -> hasValueListener(a)
    [] kind = "table" -> tableListener(a)
    [] kind = "row" -> rowListener(a)
    [] kind = "tableIds" -> tableIdsListener(a)
    [] kind = "tableCellIds" -> tableCellIdsListener(a)
    [] kind = "rowIds" -> rowIdsListener(a)
    [] kind = "cellIds" -> cellIdsListener(a)
    [] kind = "sortedRowIds" -> sortedRowIdsListener(a)
    [] kind = "hasTables" -> hasTablesListener(a)
    [] kind = "hasTable" -> hasTableListener(a)
    [] kind = "hasRow" -> hasRowListener(a)
    [] kind = "hasCell" -> hasCellListener(a)

\* the application's listener of the kind keeps what it was handed
Event(reg, a) ==
  [l |-> reg.l, kind |-> reg.kind, in |-> a, out |-> Deliver(reg.kind, a),
   change |-> Undef, other |-> Undef, told |-> FALSE, prev |-> Undef, seen |-> Undef]

\* the calls the store makes to the listeners of a kind, for the argument
\* lists it has for them, each matched against the ids of the registration
Calls(kind, mutator, keys, args) ==
  IF \A n \in DOMAIN listeners :
       listeners[n].kind # kind \/ listeners[n].mutator # mutator
  THEN <<>>
  ELSE Concat([i \in 1..Len(args) |->
                 LET regs == Registered(kind, mutator, keys[i])
                 IN [j \in 1..Len(regs) |-> Event(regs[j], args[i])]])

\* what getIdChanges() returns: 1 for an id that was added, -1 for a removed one
IdChanges(before, after) ==
  [id \in (before \ after) \cup (after \ before) |-> IF id \in after THEN 1 ELSE -1]

TableRowSeq ==
  [i \in 1..4 |-> <<TableOrder[((i - 1) \div 2) + 1], RowOrder[((i - 1) % 2) + 1]>>]

TableSeq == [i \in 1..2 |-> <<TableOrder[i]>>]

ValueSeq == [i \in 1..3 |-> <<ValueOrder[i]>>]

RowsOf(tbs, t) == DOMAIN GetMap(tbs, t)

CellsOf(tbs, t, r) == DOMAIN GetMap(GetMap(tbs, t), r)

TableCellsOf(tbs, t) == UNION {CellsOf(tbs, t, r) : r \in RowsOf(tbs, t)}

\* getSortedRowIds(tableId, cellId): the rows by the text of the cell, then id
SortedRowIds(tbs, t, c) ==
  LET rows == SelectSeq(RowOrder, LAMBDA r : r \in RowsOf(tbs, t))
  IN IF Len(rows) = 2
        /\ CellAt(tbs, <<t, rows[1], c>>) = Undef
        /\ CellAt(tbs, <<t, rows[2], c>>) # Undef
     THEN <<rows[2], rows[1]>>
     ELSE rows

hasTablesCalls(mutator) ==
  LET args == IF (tablesAtStart = Empty) = (tables = Empty) THEN <<>>
              ELSE <<[store |-> "store", hasTables |-> tables # Empty]>>
  IN Calls("hasTables", mutator, [i \in 1..Len(args) |-> <<>>], args)

tableIdsCalls(mutator) ==
  LET args == IF DOMAIN tablesAtStart = DOMAIN tables THEN <<>>
              ELSE <<[store |-> "store",
                      getIdChanges |-> IdChanges(DOMAIN tablesAtStart, DOMAIN tables)]>>
  IN Calls("tableIds", mutator, [i \in 1..Len(args) |-> <<>>], args)

hasTableCalls(mutator) ==
  LET keys == SelectSeq(TableSeq, LAMBDA k :
                (k[1] \in DOMAIN tablesAtStart) # (k[1] \in DOMAIN tables))
  IN Calls("hasTable", mutator, keys,
           [i \in 1..Len(keys) |->
              [store |-> "store", tableId |-> keys[i][1],
               hasTable |-> keys[i][1] \in DOMAIN tables]])

tableCellIdsCalls(mutator) ==
  LET keys == SelectSeq(TableSeq, LAMBDA k :
                TableCellsOf(tablesAtStart, k[1]) # TableCellsOf(tables, k[1]))
  IN Calls("tableCellIds", mutator, keys,
           [i \in 1..Len(keys) |->
              [store |-> "store", tableId |-> keys[i][1],
               getIdChanges |-> IdChanges(TableCellsOf(tablesAtStart, keys[i][1]),
                                          TableCellsOf(tables, keys[i][1]))]])

rowIdsCalls(mutator) ==
  LET keys == SelectSeq(TableSeq, LAMBDA k :
                RowsOf(tablesAtStart, k[1]) # RowsOf(tables, k[1]))
  IN Calls("rowIds", mutator, keys,
           [i \in 1..Len(keys) |->
              [store |-> "store", tableId |-> keys[i][1],
               getIdChanges |-> IdChanges(RowsOf(tablesAtStart, keys[i][1]),
                                          RowsOf(tables, keys[i][1]))]])

hasRowCalls(mutator) ==
  LET keys == SelectSeq(TableRowSeq, LAMBDA k :
                (k[2] \in RowsOf(tablesAtStart, k[1])) # (k[2] \in RowsOf(tables, k[1])))
  IN Calls("hasRow", mutator, keys,
           [i \in 1..Len(keys) |->
              [store |-> "store", tableId |-> keys[i][1], rowId |-> keys[i][2],
               hasRow |-> keys[i][2] \in RowsOf(tables, keys[i][1])]])

sortedRowIdsCalls(mutator) ==
  LET keys == SelectSeq(<< <<"t", "s">> >>, LAMBDA k :
                SortedRowIds(tablesAtStart, k[1], k[2]) # SortedRowIds(tables, k[1], k[2]))
  IN Calls("sortedRowIds", mutator, keys,
           [i \in 1..Len(keys) |->
              [store |-> "store", tableId |-> keys[i][1], cellId |-> keys[i][2],
               descending |-> FALSE, offset |-> 0, limit |-> Undef,
               sortedRowIds |-> SortedRowIds(tables, keys[i][1], keys[i][2])]])

cellIdsCalls(mutator) ==
  LET keys == SelectSeq(TableRowSeq, LAMBDA k :
                CellsOf(tablesAtStart, k[1], k[2]) # CellsOf(tables, k[1], k[2]))
  IN Calls("cellIds", mutator, keys,
           [i \in 1..Len(keys) |->
              [store |-> "store", tableId |-> keys[i][1], rowId |-> keys[i][2],
               getIdChanges |-> IdChanges(CellsOf(tablesAtStart, keys[i][1], keys[i][2]),
                                          CellsOf(tables, keys[i][1], keys[i][2]))]])

hasCellCalls(mutator) ==
  LET keys == SelectSeq(CellKeySeq, LAMBDA k :
                (CellAt(tablesAtStart, k) = Undef) # (CellAt(tables, k) = Undef))
  IN Calls("hasCell", mutator, keys,
           [i \in 1..Len(keys) |->
              [store |-> "store", tableId |-> keys[i][1], rowId |-> keys[i][2],
               cellId |-> keys[i][3], hasCell |-> CellAt(tables, keys[i]) # Undef]])

rowCalls(mutator) ==
  LET keys == SelectSeq(TableRowSeq, LAMBDA k :
                \E key \in ChangedCellKeys : key[1] = k[1] /\ key[2] = k[2])
  IN Calls("row", mutator, keys,
           [i \in 1..Len(keys) |->
              [store |-> "store", tableId |-> keys[i][1], rowId |-> keys[i][2]]])

tableCalls(mutator) ==
  LET keys == SelectSeq(TableSeq, LAMBDA k : \E key \in ChangedCellKeys : key[1] = k[1])
  IN Calls("table", mutator, keys,
           [i \in 1..Len(keys) |-> [store |-> "store", tableId |-> keys[i][1]]])

hasValuesCalls(mutator) ==
  LET args == IF (valuesAtStart = Empty) = (values = Empty) THEN <<>>
              ELSE <<[store |-> "store", hasValues |-> values # Empty]>>
  IN Calls("hasValues", mutator, [i \in 1..Len(args) |-> <<>>], args)

valueIdsCalls(mutator) ==
  LET args == IF DOMAIN valuesAtStart = DOMAIN values THEN <<>>
              ELSE <<[store |-> "store",
                      getIdChanges |-> IdChanges(DOMAIN valuesAtStart, DOMAIN values)]>>
  IN Calls("valueIds", mutator, [i \in 1..Len(args) |-> <<>>], args)

hasValueCalls(mutator) ==
  LET keys == SelectSeq(ValueSeq, LAMBDA k :
                (k[1] \in DOMAIN valuesAtStart) # (k[1] \in DOMAIN values))
  IN Calls("hasValue", mutator, keys,
           [i \in 1..Len(keys) |->
              [store |-> "store", valueId |-> keys[i][1],
               hasValue |-> keys[i][1] \in DOMAIN values]])

valuesCalls(mutator) ==
  LET args == IF ChangedValueIds = {} THEN <<>> ELSE <<[store |-> "store"]>>
  IN Calls("values", mutator, [i \in 1..Len(args) |-> <<>>], args)

\* the calls of one round, tabular listeners first
storeCalls(mutator) ==
  hasTablesCalls(mutator) \o tableIdsCalls(mutator) \o hasTableCalls(mutator)
    \o tableCellIdsCalls(mutator) \o rowIdsCalls(mutator) \o hasRowCalls(mutator)
    \o sortedRowIdsCalls(mutator) \o cellIdsCalls(mutator) \o hasCellCalls(mutator)
    \o cellCalls(mutator) \o rowCalls(mutator) \o tableCalls(mutator)
    \o tablesCalls(mutator)
    \o hasValuesCalls(mutator) \o valueIdsCalls(mutator) \o hasValueCalls(mutator)
    \o valueCalls(mutator) \o valuesCalls(mutator)

\* the write the application's listener "cellMut" makes when the cell it
\* listens to becomes "a": store.setCell("t", "r1", "o", {s: "y"}) on the
\* store it was handed
MutatorWrites(calls) ==
  \E i \in 1..Len(calls) : calls[i].l = "cellMut" /\ calls[i].out.newCell = Str("a")

MutatorStore(calls) ==
  calls[CHOOSE i \in 1..Len(calls) : calls[i].l = "cellMut"].out.store

\* the listener ids of the application
L == [cellRec |-> "cellRec", cellMut |-> "cellMut", valueRec |-> "valueRec",
      tablesRec |-> "tablesRec", tablesMut |-> "tablesMut",
      values |-> "values", valueIds |-> "valueIds", hasValues |-> "hasValues",
      hasValue |-> "hasValue", table |-> "table", row |-> "row",
      tableIds |-> "tableIds", tableCellIds |-> "tableCellIds", rowIds |-> "rowIds",
      cellIds |-> "cellIds", sortedRowIds |-> "sortedRowIds",
      hasTables |-> "hasTables", hasTable |-> "hasTable", hasRow |-> "hasRow",
      hasCell |-> "hasCell"]

---------------------------------------------------------------------------
(* The application's calls with listeners and transactions in play *)

\* the failing call threw inside the store's own transaction: the mapper the
\* facade hands to store.setCell / store.setValue is called by the store
ThrownInStore(op, inp, out) ==
  /\ op \in {"setCell", "setValue"}
  /\ inp \in Mappers
  /\ out.err \in {"Decode", "Encode", "StorageType"}

\* the record of a call; of a call that ends the application's outermost
\* transaction it keeps the content that transaction started from
CallL(op, tableId, rowId, cellId, inp, out, ends) ==
  [Call(op, tableId, rowId, cellId, inp, out) EXCEPT
     !.tablesBefore = IF ends THEN tablesAtStart ELSE tables,
     !.valuesBefore = IF ends THEN valuesAtStart ELSE values]

\* the listeners of the application that decode, write or read
Core == {L.cellRec, L.cellMut, L.valueRec, L.tablesRec, L.tablesMut}

\* the application has registered these and is between two calls
Ready == last = Idle /\ phase = "none" /\ Len(listeners) >= Cardinality(Core)

\* a write made through the facade or on the store: the store runs it in a
\* transaction of its own, which is the outermost one when none is open.
\* Inside a transaction the application writes single cells and values; the
\* writes it makes to the cell t.r1.o and the writes that throw are kept in
\* `writes`, at most MaxWrites of them.
Kept(op, cellId, out) ==
  opened > 0 /\ (out.err # "ok" \/ (op = "setCell" /\ cellId = "o"))

WriteL(op, tableId, rowId, cellId, inp, out) ==
  /\ Ready
  /\ transactions > 0 => op \in {"setCell", "setValue"}
  /\ Kept(op, cellId, out) => Len(writes) < MaxWrites
  /\ ThrownInStore(op, inp, out) => transactions < MaxTransactions
  /\ tables' = out.tables
  /\ values' = out.values
  /\ changedCells' = cellsChanged(tables, out.tables)
  /\ changedValues' = valuesChanged(values, out.values)
  /\ last' = CallL(op, tableId, rowId, cellId, inp, out, FALSE)
  /\ IF ThrownInStore(op, inp, out)
     THEN transactions' = transactions + 1 /\ phase' = "none"
     ELSE IF out.err = "ok" /\ transactions = 0
     THEN transactions' = 1 /\ phase' = "mutators"
     ELSE transactions' = transactions /\ phase' = "none"
  /\ inActions' = (inActions /\ out.err = "ok")
  /\ writes' = IF Kept(op, cellId, out)
               THEN Append(writes,
                           [c |-> cellId, err |-> out.err,
                            inStore |-> ThrownInStore(op, inp, out),
                            v |-> IF op = "setCell"
                                  THEN CellAt(out.tables, <<tableId, rowId, cellId>>)
                                  ELSE Get(out.values, cellId)])
               ELSE writes
  /\ doRollback' = FALSE
  /\ UNCHANGED <<opened, listeners, log, heard>>

LCellInputs ==
  {<<"s", Str("a")>>, <<"o", Obj("x")>>, <<"o", Obj("y")>>,
   <<"o", Fn("toDate")>>, <<"d", DateV(0)>>}

LRowInputs == {[o |-> Obj("x")], [s |-> Str("a"), o |-> Obj("y")]}

LValueInputs == {Obj("x"), Fn("toDate")}

LSetRow == \E row \in LRowInputs :
  WriteL("setRow", "t", "r1", NoId, row, setRow("t", "r1", row))

LDelRow == WriteL("delRow", "t", "r1", NoId, Undef, delRow("t", "r1"))

LSetCell == \E ci \in LCellInputs :
  WriteL("setCell", "t", "r1", ci[1], ci[2], setCell("t", "r1", ci[1], ci[2]))

LDelCell == WriteL("delCell", "t", "r1", "o", Undef, delCell("t", "r1", "o"))

LSetValue == \E value \in LValueInputs :
  WriteL("setValue", NoId, NoId, "v", value, setValue("v", value))

LDelValue == WriteL("delValue", NoId, NoId, "v", Undef, delValue("v"))

LStoreSetRow ==
  WriteL("store.setRow", "u", "r1", NoId, [x |-> Str("raw")],
         Return(storeSetRow("u", "r1", [x |-> Str("raw")]), values))

LStoreSetValue ==
  WriteL("store.setValue", NoId, NoId, "extra", Str("raw"),
         Return(tables, storeSetValue("extra", Str("raw"))))

\* the store's counter of open transactions after store.startTransaction()
storeStartTransaction == transactions + 1

\* faulty variant of startTransaction: the store is not told
startTransaction_notForwarded == transactions

startTransaction == storeStartTransaction

\* store.transaction(actions, doRollback) starts with startTransaction()
transaction == storeStartTransaction

\* a call that opens a transaction and leaves the store's counter at `depth`
Opens(op, inside, depth) ==
  /\ Ready /\ ~inActions
  /\ transactions < MaxTransactions
  /\ transactions' = depth
  /\ opened' = opened + 1
  /\ inActions' = inside
  /\ last' = CallL(op, NoId, NoId, NoId, Undef, Return(tables, values), FALSE)
  /\ doRollback' = FALSE
  /\ UNCHANGED <<tables, values, changedCells, changedValues, phase, listeners,
                 log, heard, writes>>

\* a call that closes a transaction: store.finishTransaction(doRollback); the
\* outermost one calls the listeners, and asks doRollback between the rounds
Closes(op, rollback) ==
  /\ Ready /\ opened > 0
  /\ opened' = opened - 1
  /\ last' = CallL(op, NoId, NoId, NoId,
                   IF rollback THEN Fn("returnsTrue") ELSE Undef,
                   Return(tables, values), opened = 1)
  /\ inActions' = FALSE
  /\ IF transactions = 1
     THEN transactions' = 1 /\ phase' = "mutators" /\ doRollback' = rollback
     ELSE /\ transactions' = IF transactions > 1 THEN transactions - 1 ELSE 0
          /\ phase' = "none" /\ doRollback' = FALSE
  /\ UNCHANGED <<tables, values, changedCells, changedValues, listeners,
                 log, heard, writes>>

StartTransaction == Opens("startTransaction", FALSE, startTransaction)

FinishTransaction == \E rollback \in BOOLEAN :
  ~inActions /\ Closes("finishTransaction", rollback)

\* transaction(actions, doRollback): the call, and the return of actions
Transaction == Opens("transaction", TRUE, transaction)

TransactionReturn == \E rollback \in BOOLEAN :
  inActions /\ Closes("transaction.return", rollback)

\* the store calls the listeners registered as mutators
CallMutators ==
  LET calls == storeCalls(TRUE)
      out == IF ~MutatorWrites(calls) THEN Return(tables, values)
             ELSE IF MutatorStore(calls) = typedStore
             THEN setCell("t", "r1", "o", Obj("y"))
             ELSE Return(storeSetCell("t", "r1", "o", Obj("y")), values)
  IN /\ phase = "mutators"
     /\ log' = log \o calls
     /\ tables' = out.tables
     /\ values' = out.values
     /\ changedCells' = cellsChanged(tables, out.tables)
     /\ changedValues' = valuesChanged(values, out.values)
     /\ phase' = "listeners"
     /\ transactions' = -1
     /\ UNCHANGED <<last, doRollback, inActions, opened, listeners, heard, writes>>

\* doRollback is asked; then the store calls the other listeners, whose
\* writes it ignores, and the transaction is over
CallListeners ==
  LET calls == IF doRollback THEN <<>>
               ELSE storeCalls(FALSE)
      told == {i \in 1..Len(calls) : calls[i].l = L.cellRec}
      keyOf(i) == <<calls[i].in.tableId, calls[i].in.rowId, calls[i].in.cellId>>
  IN /\ phase = "listeners"
     /\ log' = log \o calls
     /\ tables' = IF doRollback THEN tablesAtStart ELSE tables
     /\ values' = IF doRollback THEN valuesAtStart ELSE values
     /\ changedCells' = Empty
     /\ changedValues' = Empty
     /\ heard' = [key \in DOMAIN heard \cup {keyOf(i) : i \in told} |->
                    IF \E i \in told : keyOf(i) = key
                    THEN calls[CHOOSE i \in told : keyOf(i) = key].out.newCell
                    ELSE heard[key]]
     /\ phase' = "none"
     /\ transactions' = 0
     /\ UNCHANGED <<last, doRollback, inActions, opened, listeners, writes>>

\* the call has returned or thrown; the application goes on to its next call
SettleL ==
  /\ last # Idle /\ phase = "none"
  /\ last' = Idle
  /\ log' = <<>>
  /\ doRollback' = FALSE
  /\ writes' = IF opened = 0 THEN <<>> ELSE writes
  /\ UNCHANGED <<tables, values, transactions, changedCells, changedValues,
                 phase, inActions, opened, listeners, heard>>

\* the application registers its listeners before it writes, in this order
Registers(n, reg) ==
  /\ last = Idle /\ phase = "none" /\ transactions = 0
  /\ tables = Empty /\ values = Empty
  /\ Len(listeners) = n
  /\ listeners' = Append(listeners, reg)
  /\ UNCHANGED <<tables, values, last, transactions, changedCells, changedValues,
                 phase, doRollback, inActions, opened, log, heard, writes>>

AddCellListener ==
  \/ Registers(0, addCellListener(L.cellRec, Null, Null, Null, FALSE))
  \/ Registers(1, addCellListener(L.cellMut, "t", "r1", "s", TRUE))

AddValueListener == Registers(2, addValueListener(L.valueRec, Null, FALSE))

AddTablesListener ==
  \/ Registers(3, addTablesListener(L.tablesRec, FALSE))
  \/ Registers(4, addTablesListener(L.tablesMut, TRUE))

AddValuesListener == Registers(5, addValuesListener(L.values, FALSE))

AddValueIdsListener == Registers(6, addValueIdsListener(L.valueIds, FALSE))

AddHasValuesListener == Registers(7, addHasValuesListener(L.hasValues, FALSE))

AddHasValueListener == Registers(8, addHasValueListener(L.hasValue, Null, FALSE))

AddTableListener == Registers(9, addTableListener(L.table, Null, FALSE))

AddRowListener == Registers(10, addRowListener(L.row, Null, Null, FALSE))

AddTableIdsListener == Registers(11, addTableIdsListener(L.tableIds, FALSE))

AddTableCellIdsListener ==
  Registers(12, addTableCellIdsListener(L.tableCellIds, Null, FALSE))

AddRowIdsListener == Registers(13, addRowIdsListener(L.rowIds, Null, FALSE))

AddCellIdsListener == Registers(14, addCellIdsListener(L.cellIds, Null, Null, FALSE))

AddSortedRowIdsListener ==
  Registers(15, addSortedRowIdsListener(L.sortedRowIds, "t", "s", FALSE))

AddHasTablesListener == Registers(16, addHasTablesListener(L.hasTables, FALSE))

AddHasTableListener == Registers(17, addHasTableListener(L.hasTable, Null, FALSE))

AddHasRowListener == Registers(18, addHasRowListener(L.hasRow, Null, Null, FALSE))

AddHasCellListener ==
  Registers(19, addHasCellListener(L.hasCell, Null, Null, Null, FALSE))

NextL ==
  \/ AddCellListener \/ AddValueListener \/ AddTablesListener
  \/ LSetRow \/ LDelRow \/ LSetCell \/ LDelCell \/ LSetValue \/ LDelValue
  \/ LStoreSetRow \/ LStoreSetValue
  \/ StartTransaction \/ FinishTransaction \/ Transaction \/ TransactionReturn
  \/ CallMutators \/ CallListeners \/ SettleL

SpecL == Init /\ [][NextL]_vars

\* the application has registered a listener with every registration
\* operation of the facade, and then writes outside transactions
AllRegistered == Len(listeners) = Cardinality(DOMAIN L)

RSetRow == AllRegistered /\ LSetRow

RDelRow == AllRegistered /\ LDelRow

RSetCell == AllRegistered /\ LSetCell

RDelCell == AllRegistered /\ LDelCell

RSetValue == AllRegistered /\ LSetValue

RDelValue == AllRegistered /\ LDelValue

RStoreSetRow == AllRegistered /\ LStoreSetRow

RStoreSetValue == AllRegistered /\ LStoreSetValue

NextR ==
  \/ AddCellListener \/ AddValueListener \/ AddTablesListener
  \/ AddValuesListener \/ AddValueIdsListener \/ AddHasValuesListener
  \/ AddHasValueListener \/ AddTableListener \/ AddRowListener
  \/ AddTableIdsListener \/ AddTableCellIdsListener \/ AddRowIdsListener
  \/ AddCellIdsListener \/ AddSortedRowIdsListener \/ AddHasTablesListener
  \/ AddHasTableListener \/ AddHasRowListener \/ AddHasCellListener
  \/ RSetRow \/ RDelRow \/ RSetCell \/ RDelCell \/ RSetValue \/ RDelValue
  \/ RStoreSetRow \/ RStoreSetValue
  \/ CallMutators \/ CallListeners \/ SettleL

SpecR == Init /\ [][NextR]_vars

---------------------------------------------------------------------------
(* src/codec.ts: the pre-built field codecs.  A codec is z.codec(stored      *)
(* schema, application schema, {encode, decode}): encode checks its input    *)
(* against the application schema, converts, and checks the result against   *)
(* the stored schema; decode does the same the other way.  Results are       *)
(* [ok, v], ok = FALSE being zod's (or the conversion's) thrown error.       *)

Num(n) == [k |-> "number", s |-> "", n |-> n]

Bool(b) == [k |-> "boolean", s |-> IF b THEN "true" ELSE "false", n |-> 0]

JsNull == [k |-> "null", s |-> "", n |-> 0]

Failed(v) == [ok |-> FALSE, v |-> v]

Done(v) == [ok |-> TRUE, v |-> v]

Digit(d) == SubSeq("0123456789", d + 1, d + 1)

IsDigit(ch) == \E d \in 0..9 : Digit(d) = ch

DigitValue(ch) == CHOOSE d \in 0..9 : Digit(d) = ch

IsDigits(text) ==
  Len(text) > 0 /\ \A i \in 1..Len(text) : IsDigit(SubSeq(text, i, i))

RECURSIVE Decimal(_)
\* the decimal text of a natural number
Decimal(n) == IF n < 10 THEN Digit(n) ELSE Decimal(n \div 10) \o Digit(n % 10)

RECURSIVE ParseDecimal(_)
\* the natural number a text of digits stands for
ParseDecimal(text) ==
  IF Len(text) = 0 THEN 0
  ELSE ParseDecimal(SubSeq(text, 1, Len(text) - 1)) * 10
         + DigitValue(SubSeq(text, Len(text), Len(text)))

Pad2(n) == Digit(n \div 10) \o Digit(n % 10)

Pad3(n) == Digit(n \div 100) \o Pad2(n % 100)

\* JSON.stringify(value): [ok, v]; ok = FALSE when it yields undefined, which
\* is no string
stringify(value) ==
  IF value.k = "null" THEN Done(Str("null"))
  ELSE IF value.k = "boolean" THEN Done(Str(value.s))
  ELSE IF value.k = "number"
  THEN Done(Str(IF value.n < 0 THEN "-" \o Decimal(-value.n) ELSE Decimal(value.n)))
  ELSE IF value.k = "string" THEN Done(Str("\"" \o value.s \o "\""))
  ELSE IF value.k = "object" THEN Done(JSONstringify(value))
  ELSE Failed(Undef)

\* JSON.parse(text): [ok, v]; ok = FALSE is its SyntaxError
parse(text) ==
  LET n == Len(text)
      first == IF n = 0 THEN "" ELSE SubSeq(text, 1, 1)
  IN IF text = "null" THEN Done(JsNull)
     ELSE IF text \in {"true", "false"} THEN Done(Bool(text = "true"))
     ELSE IF IsDigits(text) THEN Done(Num(ParseDecimal(text)))
     ELSE IF first = "-" /\ IsDigits(SubSeq(text, 2, n))
     THEN Done(Num(-ParseDecimal(SubSeq(text, 2, n))))
     ELSE IF first = "\"" /\ n >= 2 /\ SubSeq(text, n, n) = "\""
     THEN Done(Str(SubSeq(text, 2, n - 1)))
     ELSE IF n >= 8 /\ SubSeq(text, 1, 6) = "{\"s\":\"" /\ SubSeq(text, n - 1, n) = "\"}"
     THEN Done(Obj(SubSeq(text, 7, n - 2)))
     ELSE Failed(Undef)

\* json(schema).encode
jsonEncode(value) ==
  IF value.k \notin {"null", "boolean", "number", "string", "object"}
  THEN Failed(value)
  ELSE stringify(value)

\* json(schema).decode
jsonDecode(stored) ==
  IF stored.k # "string" THEN Failed(stored) ELSE parse(stored.s)

\* d.toISOString() of the date at ms milliseconds since the epoch, for the
\* days around the epoch
toISOString(ms) ==
  LET day == ms \div 86400000
      rest == ms % 86400000
      date == IF day = 0 THEN "1970-01-01"
              ELSE IF day < 0 THEN "1969-12-31" ELSE "1970-01-02"
  IN date \o "T" \o Pad2(rest \div 3600000) \o ":"
       \o Pad2((rest % 3600000) \div 60000) \o ":"
       \o Pad2((rest % 60000) \div 1000) \o "." \o Pad3(rest % 1000) \o "Z"

\* new Date(text) for a text in toISOString's format: [ok, v], ok = FALSE is
\* the Invalid Date
newDate(text) ==
  LET date == SubSeq(text, 1, 10)
      day == IF date = "1970-01-01" THEN 0 ELSE IF date = "1969-12-31" THEN -1 ELSE 1
      field(a, b) == ParseDecimal(SubSeq(text, a, b))
  IN IF /\ Len(text) = 24
        /\ date \in {"1969-12-31", "1970-01-01", "1970-01-02"}
        /\ SubSeq(text, 11, 11) = "T" /\ SubSeq(text, 14, 14) = ":"
        /\ SubSeq(text, 17, 17) = ":" /\ SubSeq(text, 20, 20) = "."
        /\ SubSeq(text, 24, 24) = "Z"
        /\ IsDigits(SubSeq(text, 12, 13)) /\ IsDigits(SubSeq(text, 15, 16))
        /\ IsDigits(SubSeq(text, 18, 19)) /\ IsDigits(SubSeq(text, 21, 23))
     THEN Done(DateV(day * 86400000 + field(12, 13) * 3600000
                       + field(15, 16) * 60000 + field(18, 19) * 1000
                       + field(21, 23)))
     ELSE Failed(Undef)

\* faulty variant of dateAsIsoEncode: the milliseconds are written as zero
dateAsIsoEncode_noMillis(d) ==
  IF d.k # "date" THEN Failed(d) ELSE Done(Str(toISOString(d.n - (d.n % 1000))))

dateAsIsoEncode(d) ==
  IF d.k # "date" THEN Failed(d) ELSE Done(Str(toISOString(d.n)))

dateAsIsoDecode(s) ==
  IF s.k # "string" THEN Failed(s) ELSE newDate(s.s)

dateAsNumberMsEncode(d) ==
  IF d.k # "date" THEN Failed(d) ELSE Done(Num(d.n))

dateAsNumberMsDecode(ms) ==
  IF ms.k # "number" THEN Failed(ms) ELSE Done(DateV(ms.n))

\* faulty variant of MathTrunc: Math.floor, which rounds down
MathTrunc_floor(num, den) == num \div den

\* Math.trunc(num / den): rounding toward zero
MathTrunc(num, den) == IF num >= 0 THEN num \div den ELSE -((-num) \div den)

dateAsNumberSecondsEncode(d) ==
  IF d.k # "date" THEN Failed(d) ELSE Done(Num(MathTrunc(d.n, 1000)))

dateAsNumberSecondsDecode(seconds) ==
  IF seconds.k # "number" THEN Failed(seconds) ELSE Done(DateV(seconds.n * 1000))

Codecs == {"json", "dateAsIso", "dateAsNumberMs", "dateAsNumberSeconds"}

encode(codec, x) ==
  CASE codec = "json" -> jsonEncode(x)
    [] codec = "dateAsIso" -> dateAsIsoEncode(x)
    [] codec = "dateAsNumberMs" -> dateAsNumberMsEncode(x)
    [] codec = "dateAsNumberSeconds" -> dateAsNumberSecondsEncode(x)

decode(codec, stored) ==
  CASE codec = "json" -> jsonDecode(stored)
    [] codec = "dateAsIso" -> dateAsIsoDecode(stored)
    [] codec = "dateAsNumberMs" -> dateAsNumberMsDecode(stored)
    [] codec = "dateAsNumberSeconds" -> dateAsNumberSecondsDecode(stored)

\* the bound on the whole seconds, before and after the epoch, of the dates tried
MaxSeconds == 2

SubSeconds == {0, 1, 500, 999}

\* the dates tried, as milliseconds since the epoch
Millis ==
  {sign * (sec * 1000 + sub) :
     sign \in {-1, 1}, sec \in 0..MaxSeconds, sub \in SubSeconds}

Dates == {DateV(ms) : ms \in Millis}

\* the JSON-serializable values tried
JsonValues ==
  {JsNull, Bool(TRUE), Bool(FALSE), Num(0), Num(7), Num(-12), Num(1500),
   Str(""), Str("a"), Str("null"), Str("12")}
    \cup {Obj(p) : p \in ObjPayloads}

\* a codec's application-level domain
Domain(codec) == IF codec = "json" THEN JsonValues ELSE Dates

\* the stored numbers handed to decode directly
StoredSeconds == {Num(s) : s \in (0 - MaxSeconds)..MaxSeconds}

\* the codec call in progress: the codec, the application value, what encode
\* made of it and what decode made of that
Codec(step, codec, x, stored, decoded) ==
  [op |-> step, codec |-> codec, x |-> x, stored |-> stored, decoded |-> decoded]

InitC ==
  /\ tables = Empty
  /\ values = Empty
  /\ last \in {Codec("input", codec, x, Failed(Undef), Failed(Undef)) :
                 codec \in Codecs, x \in Dates \cup JsonValues}
               \cup {Codec("stored", codec, Undef, Done(s), Failed(Undef)) :
                       codec \in {"dateAsNumberMs", "dateAsNumberSeconds"},
                       s \in StoredSeconds}
  /\ transactions = 0
  /\ changedCells = Empty
  /\ changedValues = Empty
  /\ phase = "none"
  /\ doRollback = FALSE
  /\ inActions = FALSE
  /\ opened = 0
  /\ listeners = <<>>
  /\ log = <<>>
  /\ heard = Empty
  /\ writes = <<>>

\* codec.encode(x)
Encode ==
  /\ last.op = "input"
  /\ last' = [last EXCEPT !.op = "encoded", !.stored = encode(last.codec, last.x)]
  /\ UNCHANGED <<tables, values, lvars>>

\* codec.decode(stored), of what encode returned or of a stored number
Decode ==
  /\ last.op \in {"encoded", "stored"}
  /\ last.stored.ok
  /\ last' = [last EXCEPT !.op = "decoded",
                          !.decoded = decode(last.codec, last.stored.v)]
  /\ UNCHANGED <<tables, values, lvars>>

NextC == Encode \/ Decode

SpecC == InitC /\ [][NextC]_vars

---------------------------------------------------------------------------
(* Properties *)

Unchanged == tables = last.tablesBefore /\ values = last.valuesBefore

RowExistedBefore(tableId, rowId) ==
  tableId \in DOMAIN last.tablesBefore /\ rowId \in DOMAIN last.tablesBefore[tableId]

\* the field's encode step succeeds with something that is neither a storage
\* scalar nor undefined
NonScalar(codec, value) ==
  /\ zodEncode(codec, value).ok
  /\ zodEncode(codec, value).v # Undef
  /\ zodEncode(codec, value).v.k \notin {"string", "number", "boolean", "null"}

RowNonScalar(tableId, row) ==
  /\ tableId \in DOMAIN mapped.tables
  /\ \E c \in DOMAIN mapped.tables[tableId] \cap DOMAIN row :
       NonScalar(mapped.tables[tableId][c], row[c])

\* the call in `last` reached a field whose encoded output is not storable
EncodesNonScalar ==
  \/ /\ last.op \in {"setRow", "setPartialRow"}
     /\ RowNonScalar(last.t, last.inp)
  \/ /\ last.op = "setTable"
     /\ \E r \in DOMAIN last.inp : RowNonScalar(last.t, last.inp[r])
  \/ /\ last.op = "setTables"
     /\ \E t \in DOMAIN last.inp : \E r \in DOMAIN last.inp[t] :
          RowNonScalar(t, last.inp[t][r])
  \/ /\ last.op = "setCell"
     /\ last.t \in DOMAIN mapped.tables
     /\ last.c \in DOMAIN mapped.tables[last.t]
     /\ IF last.inp.k = "function"
        THEN last.called /\ NonScalar(mapped.tables[last.t][last.c],
                                       callMapper(last.inp, last.arg))
        ELSE NonScalar(mapped.tables[last.t][last.c], last.inp)
  \/ /\ last.op = "setValue"
     /\ last.c \in DOMAIN mapped.values
     /\ IF last.inp.k = "function"
        THEN last.called /\ NonScalar(mapped.values[last.c],
                                       callMapper(last.inp, last.arg))
        ELSE NonScalar(mapped.values[last.c], last.inp)
  \/ /\ last.op = "setValues"
     /\ \E id \in DOMAIN last.inp \cap DOMAIN mapped.values :
          NonScalar(mapped.values[id], last.inp[id])

\* C1 (storage safety): every cell and every value the underlying store holds
\* is a string, number, boolean or null, and a typed write that reaches a field
\* whose encoded output is neither such a scalar nor undefined throws and
\* stores nothing.
C1_StorageSafety ==
  /\ \A t \in DOMAIN tables : \A r \in DOMAIN tables[t] : \A c \in DOMAIN tables[t][r] :
       tables[t][r][c].k \in {"string", "number", "boolean", "null"}
  /\ \A id \in DOMAIN values : values[id].k \in {"string", "number", "boolean", "null"}
  /\ EncodesNonScalar => last.err # "ok" /\ Unchanged

\* C1 witness: a mapper returned a Date for a cell of an existing row and the
\* write threw the storage-type error.
C1_Witness ==
  /\ last.op = "setCell" /\ last.inp = Fn("toDate") /\ last.c = "d"
  /\ last.called /\ last.err = "StorageType"
  /\ "v" \in DOMAIN values

\* C2 (row-creation guard): setCell on a row that does not exist in the
\* underlying store throws the missing-row error, in literal and in mapper
\* form, creates no row and leaves the store as it was.
C2_RowCreationGuard ==
  (last.op = "setCell" /\ ~RowExistedBefore(last.t, last.r)) =>
     /\ last.err = "MissingRow"
     /\ ~last.called
     /\ ~hasRow(last.t, last.r)
     /\ Unchanged

\* C2 witness: a mapper-form setCell on a missing row of a table that holds
\* another row threw the missing-row error.
C2_Witness ==
  /\ last.op = "setCell" /\ last.inp.k = "function" /\ last.err = "MissingRow"
  /\ last.t = "t" /\ last.r = "r2" /\ hasRow("t", "r1") /\ ~hasRow("t", "r2")

---------------------------------------------------------------------------
(* Absence and mappers *)

CellBefore(tableId, rowId, cellId) ==
  Get(GetMap(GetMap(last.tablesBefore, tableId), rowId), cellId)

ValueBefore(valueId) == Get(last.valuesBefore, valueId)

Declared(tableId, cellId) ==
  tableId \in DOMAIN mapped.tables /\ cellId \in DOMAIN mapped.tables[tableId]

\* the field's encode step succeeds and yields undefined
EncodesAbsent(codec, value) ==
  zodEncode(codec, value).ok /\ zodEncode(codec, value).v = Undef

RowAbsenceHolds(tableId, rowId, row) ==
  \A c \in DOMAIN row :
    (Declared(tableId, c) /\ EncodesAbsent(mapped.tables[tableId][c], row[c]))
      => storeGetCell(tableId, rowId, c) = Undef

\* C3 (absence is deletion on literal writes): after a successful literal
\* setRow, setTable, setTables, setValues, setCell or setValue, every field of
\* the input whose encode step yields undefined has no entry in the underlying
\* store, whether or not it had one before the call.
C3_AbsenceIsDeletion ==
  last.err = "ok" =>
    /\ last.op = "setRow" => RowAbsenceHolds(last.t, last.r, last.inp)
    /\ last.op = "setTable" =>
         \A r \in DOMAIN last.inp : RowAbsenceHolds(last.t, r, last.inp[r])
    /\ last.op = "setTables" =>
         \A t \in DOMAIN last.inp : \A r \in DOMAIN last.inp[t] :
           RowAbsenceHolds(t, r, last.inp[t][r])
    /\ last.op = "setValues" =>
         \A id \in DOMAIN last.inp \cap DOMAIN mapped.values :
           EncodesAbsent(mapped.values[id], last.inp[id]) => id \notin DOMAIN values
    /\ (last.op = "setCell" /\ last.inp.k # "function" /\ Declared(last.t, last.c)) =>
         (EncodesAbsent(mapped.tables[last.t][last.c], last.inp)
            => storeGetCell(last.t, last.r, last.c) = Undef)
    /\ (last.op = "setValue" /\ last.inp.k # "function"
          /\ last.c \in DOMAIN mapped.values) =>
         (EncodesAbsent(mapped.values[last.c], last.inp) => last.c \notin DOMAIN values)

\* C4 (mapper absence deletes): after a setCell or setValue whose mapper was
\* invoked and returned undefined, the targeted cell or value has no entry in
\* the underlying store.
C4_MapperAbsenceDeletes ==
  (/\ last.op \in {"setCell", "setValue"}
   /\ last.inp.k = "function"
   /\ last.called
   /\ last.err = "ok"
   /\ callMapper(last.inp, last.arg) = Undef)
    => IF last.op = "setCell"
       THEN storeGetCell(last.t, last.r, last.c) = Undef
       ELSE last.c \notin DOMAIN values

\* what a typed read of the stored entry `stored` under `codec` returns
Decoded(codec, stored) ==
  IF stored = Undef THEN Undef ELSE zodDecode(codec, stored).v

\* C5 (mapper read-modify-write): a successful mapper-form setCell on an
\* existing row and a declared cell, or setValue on a declared value, invoked
\* the mapper f with the value getCell / getValue returned just before the
\* call; afterwards getCell / getValue returns f of that value and the
\* underlying store holds its encoding.
C5_MapperReadModifyWrite ==
  /\ (/\ last.op = "setCell" /\ last.inp.k = "function" /\ last.err = "ok"
      /\ RowExistedBefore(last.t, last.r) /\ Declared(last.t, last.c))
       => /\ last.called
          /\ last.arg = Decoded(mapped.tables[last.t][last.c],
                                CellBefore(last.t, last.r, last.c))
          /\ getCell(last.t, last.r, last.c) = Value(callMapper(last.inp, last.arg))
          /\ storeGetCell(last.t, last.r, last.c)
               = zodEncode(mapped.tables[last.t][last.c],
                           callMapper(last.inp, last.arg)).v
  /\ (/\ last.op = "setValue" /\ last.inp.k = "function" /\ last.err = "ok"
      /\ last.c \in DOMAIN mapped.values)
       => /\ last.called
          /\ last.arg = Decoded(mapped.values[last.c], ValueBefore(last.c))
          /\ getValue(last.c) = Value(callMapper(last.inp, last.arg))
          /\ storeGetValue(last.c)
               = zodEncode(mapped.values[last.c], callMapper(last.inp, last.arg)).v

---------------------------------------------------------------------------
(* Unknown ids *)

UndeclaredTables == TableIds \ DOMAIN mapped.tables

\* C6 (strict single-entity lookups): getTable and getRow on an undeclared
\* table id, and getCell on an undeclared table id or on an undeclared cell id
\* of a declared table, throw the unknown-table / unknown-cell error whatever
\* the store holds; setTable and setRow on an undeclared table id throw the
\* unknown-table error and leave the underlying store unchanged.
C6_StrictLookups ==
  /\ \A t \in UndeclaredTables : \A r \in RowIds :
       /\ getTable(t).err = "UnknownTable"
       /\ getRow(t, r).err = "UnknownTable"
       /\ \A c \in CellIds : getCell(t, r, c).err = "UnknownTable"
  /\ \A t \in DOMAIN mapped.tables : \A r \in RowIds :
       \A c \in CellIds \ DOMAIN mapped.tables[t] : getCell(t, r, c).err = "UnknownCell"
  /\ (last.op \in {"setTable", "setRow"} /\ last.t \in UndeclaredTables)
       => last.err = "UnknownTable" /\ Unchanged

\* C6 witness: setRow on an undeclared table id threw the unknown-table error
\* while the underlying store holds a row under that very table id, beside a
\* row of the declared table.
C6_Witness ==
  /\ last.op = "setRow" /\ last.t = "u" /\ last.r = "r1"
  /\ last.err = "UnknownTable"
  /\ storeHasRow("u", "r1") /\ storeHasRow("t", "r1")

\* C7 as stated (unknown ids win whatever the row): setCell on an undeclared
\* table id throws the unknown-table error, and on a declared table with an
\* undeclared cell id the unknown-cell error, whether or not the row exists.
C7_UnknownIdsForEveryRow ==
  last.op = "setCell" =>
    /\ last.t \in UndeclaredTables => last.err = "UnknownTable"
    /\ (last.t \in DOMAIN mapped.tables /\ ~Declared(last.t, last.c))
         => last.err = "UnknownCell"

\* C7 amended (unknown ids on an existing row): setCell on a row that exists
\* in the underlying store throws the unknown-table error when the table id is
\* undeclared and the unknown-cell error when the table is declared and the
\* cell id is not, without invoking a mapper or changing the store; on a row
\* that does not exist it throws the missing-row error whatever the ids are.
C7_UnknownIdsOnExistingRow ==
  last.op = "setCell" =>
    /\ (RowExistedBefore(last.t, last.r) /\ last.t \in UndeclaredTables)
         => last.err = "UnknownTable" /\ ~last.called /\ Unchanged
    /\ (/\ RowExistedBefore(last.t, last.r)
        /\ last.t \in DOMAIN mapped.tables /\ ~Declared(last.t, last.c))
         => last.err = "UnknownCell" /\ ~last.called /\ Unchanged
    /\ (~RowExistedBefore(last.t, last.r) /\ ~Declared(last.t, last.c))
         => last.err = "MissingRow"

\* C7 witness: a mapper-form setCell on an existing row of an undeclared table
\* threw the unknown-table error.
C7_Witness ==
  /\ last.op = "setCell" /\ last.t = "u" /\ last.r = "r1" /\ last.c = "x"
  /\ last.inp.k = "function"
  /\ storeHasRow("u", "r1")
  /\ last.err = "UnknownTable"

\* the input's declared tables all encode to storable rows
DeclaredPartEncodes(tbs) ==
  \A t \in DOMAIN tbs \cap DOMAIN mapped.tables : tableOutcome(t, tbs[t]).err = "ok"

\* C8 (bulk table tolerance): getTables never throws and never returns an
\* undeclared table id, whatever is stored under undeclared ids; setTables
\* whose declared tables encode does not throw, with or without undeclared
\* table ids in the input, and writes no undeclared table id to the underlying
\* store; getTable on an undeclared id throws.
C8_BulkTableTolerance ==
  /\ getTables.err = "ok"
  /\ DOMAIN getTables.v \subseteq DOMAIN mapped.tables
  /\ \A t \in UndeclaredTables : getTable(t).err = "UnknownTable"
  /\ last.op = "setTables" =>
       /\ DeclaredPartEncodes(last.inp) => last.err = "ok"
       /\ \A t \in DOMAIN tables \ DOMAIN mapped.tables :
            t \in DOMAIN last.tablesBefore /\ tables[t] = last.tablesBefore[t]

\* C8 witness: setTables with a declared and an undeclared table id returned
\* normally and stored the declared table only.
C8_Witness ==
  /\ last.op = "setTables" /\ last.err = "ok"
  /\ DOMAIN last.inp = {"t", "u"}
  /\ DOMAIN tables = {"t"}
  /\ "u" \in DOMAIN last.tablesBefore

\* C9 as stated (unknown data untouched by bulk writes): after a successful
\* setTables every table the underlying store held under an undeclared id is
\* still there with the same content, and after a successful setValues so is
\* every value it held under an undeclared id.
C9_UnknownDataUntouched ==
  /\ (last.op = "setTables" /\ last.err = "ok") =>
       \A t \in DOMAIN last.tablesBefore \ DOMAIN mapped.tables :
         t \in DOMAIN tables /\ tables[t] = last.tablesBefore[t]
  /\ (last.op = "setValues" /\ last.err = "ok") =>
       \A id \in DOMAIN last.valuesBefore \ DOMAIN mapped.values :
         id \in DOMAIN values /\ values[id] = last.valuesBefore[id]

\* the tables setTables hands to the store: the declared ones, encoded, with
\* the rows and tables left without a cell dropped
EncodedTables(tbs) ==
  storeValidTables([t \in DOMAIN tbs \cap DOMAIN mapped.tables |->
                      tableOutcome(t, tbs[t]).table])

\* the values setValues hands to the store: the declared ones that do not
\* encode to undefined
EncodedValues(vals) ==
  [id \in {id \in DOMAIN vals \cap DOMAIN mapped.values :
             valueOutcome(id, vals[id]).v # Undef} |-> valueOutcome(id, vals[id]).v]

\* C9 amended (bulk writes replace the whole content): a successful setTables
\* leaves the underlying store holding exactly the encoded declared tables of
\* its input, so every table stored under an undeclared id is removed, unless
\* that encoded part is empty, in which case the tables are left as they were;
\* likewise a successful setValues leaves exactly the encoded declared values
\* of its input, removing every value stored under an undeclared id, unless
\* that part is empty, in which case the values are left as they were.
C9_BulkWritesReplace ==
  /\ (last.op = "setTables" /\ last.err = "ok") =>
       /\ values = last.valuesBefore
       /\ IF EncodedTables(last.inp) = Empty
          THEN tables = last.tablesBefore
          ELSE /\ tables = EncodedTables(last.inp)
               /\ DOMAIN tables \subseteq DOMAIN mapped.tables
  /\ (last.op = "setValues" /\ last.err = "ok") =>
       /\ tables = last.tablesBefore
       /\ IF EncodedValues(last.inp) = Empty
          THEN values = last.valuesBefore
          ELSE /\ values = EncodedValues(last.inp)
               /\ DOMAIN values \subseteq DOMAIN mapped.values

\* C9 witness: a successful setValues removed the value stored under an
\* undeclared id while tables of an undeclared id are stored.
C9_Witness ==
  /\ last.op = "setValues" /\ last.err = "ok"
  /\ "extra" \in DOMAIN last.valuesBefore
  /\ "extra" \notin DOMAIN values
  /\ "v" \in DOMAIN values
  /\ "u" \in DOMAIN tables

\* C10 (unknown single value ids are silent): setValue on an undeclared value
\* id, literal or mapper, returns normally, invokes no mapper and leaves the
\* underlying store unchanged; getValue on an undeclared value id returns
\* undefined without throwing, also when the store holds a value under it.
C10_UnknownValueIdsSilent ==
  /\ \A id \in ValueIds \ DOMAIN mapped.values : getValue(id) = Value(Undef)
  /\ (last.op = "setValue" /\ last.c \notin DOMAIN mapped.values)
       => last.err = "ok" /\ ~last.called /\ Unchanged

\* C10 witness: a mapper-form setValue on an undeclared value id returned
\* normally while the underlying store holds a value under that id.
C10_Witness ==
  /\ last.op = "setValue" /\ last.c = "extra" /\ last.inp.k = "function"
  /\ last.err = "ok"
  /\ "extra" \in DOMAIN values

---------------------------------------------------------------------------
(* Value ids *)

\* C11 (value ids): getValueIds() is exactly the set of declared value ids the
\* underlying store holds, which is the key set of getValues(); a value stored
\* under an undeclared id is in neither.
C11_ValueIds ==
  /\ getValueIds = DOMAIN values \cap DOMAIN mapped.values
  /\ getValues.err = "ok"
  /\ getValueIds = DOMAIN getValues.v
  /\ \A id \in DOMAIN values \ DOMAIN mapped.values :
       id \notin getValueIds /\ id \notin DOMAIN getValues.v

\* C11 witness: the store holds a declared value and a value under an
\* undeclared id, and another declared value is absent.
C11_Witness ==
  /\ "extra" \in DOMAIN values /\ "v" \in DOMAIN values /\ "w" \notin DOMAIN values
  /\ getValueIds = {"v"}

---------------------------------------------------------------------------
(* Failed writes *)

TypedWrites ==
  {"setTables", "setTable", "setRow", "setPartialRow", "setCell",
   "setValues", "setValue", "setContent"}

\* C18 (a failed write changes nothing): when a typed write throws (guard
\* violation, encode error, unknown id, missing row) the tables and values of
\* the underlying store are what they were when the call was made; no field,
\* row or table of the failed call is stored.
C18_FailedWriteChangesNothing ==
  (last.op \in TypedWrites /\ last.err # "ok") => Unchanged

\* C18 witness: setRow with one storable field and one field the guard rejects
\* threw over a stored row, beside stored values.
C18_Witness ==
  /\ last.op = "setRow" /\ last.t = "t" /\ last.r = "r1"
  /\ last.inp = [s |-> Str("a"), d |-> DateV(0)]
  /\ last.err = "StorageType" /\ last.path = "tables.t.r1.d"
  /\ storeGetRow("t", "r1") = [o |-> JSONstringify(Obj("x"))]
  /\ "v" \in DOMAIN values

---------------------------------------------------------------------------
(* Round trip *)

\* x is a value the codec encodes to a storage scalar (the string and json
\* codecs of the declaration, which round-trip; a Date field encodes to no
\* scalar and is never written)
RoundTrips(codec, x) ==
  /\ x # Undef
  /\ codec \in {"string", "json"}
  /\ zodEncode(codec, x).ok
  /\ isStorageCell(zodEncode(codec, x).v)

\* after a write of `row` at (tableId, rowId), each declared field the row
\* gives a round-tripping value is stored encoded and read back decoded by
\* getCell, getRow, getTable and getTables
RowRoundTrips(tableId, rowId, row) ==
  \A c \in DOMAIN row \cap DOMAIN mapped.tables[tableId] :
    RoundTrips(mapped.tables[tableId][c], row[c]) =>
      /\ storeGetCell(tableId, rowId, c) = zodEncode(mapped.tables[tableId][c], row[c]).v
      /\ getCell(tableId, rowId, c) = Value(row[c])
      /\ getRow(tableId, rowId).err = "ok"
      /\ getRow(tableId, rowId).v[c] = row[c]
      /\ getTable(tableId).err = "ok"
      /\ getTable(tableId).v[rowId][c] = row[c]
      /\ getTables.err = "ok"
      /\ getTables.v[tableId][rowId][c] = row[c]

\* C20 (facade round trip): after a successful setRow, setTable, setTables,
\* setCell, setValue or setValues that writes application value x to a declared
\* field whose codec round-trips, the underlying store holds encode(x) and the
\* matching typed reads return x; after delCell, delRow, delTable, delTables,
\* delValue or delValues the matching typed read returns undefined, or an
\* empty mapping for the table-level and values-level reads.
C20_FacadeRoundTrip ==
  /\ (last.err = "ok" /\ last.t \in DOMAIN mapped.tables) =>
       /\ last.op = "setRow" => RowRoundTrips(last.t, last.r, last.inp)
       /\ last.op = "setTable" =>
            \A r \in DOMAIN last.inp : RowRoundTrips(last.t, r, last.inp[r])
       /\ (last.op = "setCell" /\ last.inp.k # "function"
             /\ last.c \in DOMAIN mapped.tables[last.t]) =>
            RowRoundTrips(last.t, last.r, [c \in {last.c} |-> last.inp])
       /\ (last.op = "delCell" /\ last.c \in DOMAIN mapped.tables[last.t]) =>
            getCell(last.t, last.r, last.c) = Value(Undef)
       /\ last.op = "delRow" => getRow(last.t, last.r) = Value(Undef)
       /\ last.op = "delTable" => getTable(last.t) = Value(Empty)
  /\ (last.op = "setTables" /\ last.err = "ok") =>
       \A t \in DOMAIN last.inp \cap DOMAIN mapped.tables :
         \A r \in DOMAIN last.inp[t] : RowRoundTrips(t, r, last.inp[t][r])
  /\ last.op = "delTables" => getTables = Value(Empty)
  /\ (last.op = "setValue" /\ last.err = "ok" /\ last.inp.k # "function"
        /\ last.c \in DOMAIN mapped.values /\ RoundTrips(mapped.values[last.c], last.inp)) =>
       /\ storeGetValue(last.c) = zodEncode(mapped.values[last.c], last.inp).v
       /\ getValue(last.c) = Value(last.inp)
  /\ (last.op = "setValues" /\ last.err = "ok") =>
       \A id \in DOMAIN last.inp \cap DOMAIN mapped.values :
         RoundTrips(mapped.values[id], last.inp[id]) =>
           /\ storeGetValue(id) = zodEncode(mapped.values[id], last.inp[id]).v
           /\ getValue(id) = Value(last.inp[id])
           /\ getValues.err = "ok"
           /\ getValues.v[id] = last.inp[id]
  /\ (last.op = "delValue" /\ last.c \in DOMAIN mapped.values) =>
       getValue(last.c) = Value(Undef)
  /\ last.op = "delValues" => getValues = Value(Empty)

\* C20 witness: setRow wrote a string and a JSON object over another stored
\* object; the store holds the JSON text and getCell returns the object.
C20_Witness ==
  /\ last.op = "setRow" /\ last.err = "ok" /\ last.t = "t" /\ last.r = "r1"
  /\ last.inp = [s |-> Str("a"), o |-> Obj("x")]
  /\ CellBefore("t", "r1", "o") = Str("{\"s\":\"y\"}")
  /\ storeGetCell("t", "r1", "o") = Str("{\"s\":\"x\"}")
  /\ getCell("t", "r1", "o") = Value(Obj("x"))

---------------------------------------------------------------------------
(* Transactions *)

\* the call that ended the application's outermost transaction has returned
Ended ==
  /\ phase = "none" /\ opened = 0
  /\ last.op \in {"finishTransaction", "transaction.return"}

\* that call was given a rollback predicate that returns true
RollbackAsked == last.inp = Fn("returnsTrue")

\* the store had no transaction open when the application opened its own
CleanStart ==
  transactions - opened = Cardinality({i \in DOMAIN writes : writes[i].inStore})

FailedInside == \E i \in DOMAIN writes : writes[i].err # "ok"

\* the application wrote the cell t.r1.o more than once in the transaction
SeveralWrites == Cardinality({i \in DOMAIN writes : writes[i].err = "ok"}) >= 2

\* the invocations of listener l for the cell `key` in the calls the store made
CallsFor(l, key) ==
  {i \in DOMAIN log :
     /\ log[i].l = l /\ log[i].kind = "cell"
     /\ <<log[i].out.tableId, log[i].out.rowId, log[i].out.cellId>> = key}

\* the application-level value of what the store holds in a cell
DecodedCell(key, stored) ==
  IF Declared(key[1], key[3])
  THEN Decoded(mapped.tables[key[1]][key[3]], stored)
  ELSE stored

\* listener l was invoked for the cell exactly once, with the decoded
\* pre-transaction and final values
InvokedOnce(l, key) ==
  /\ Cardinality(CallsFor(l, key)) = 1
  /\ \A i \in CallsFor(l, key) :
       /\ log[i].out.oldCell = DecodedCell(key, CellAt(last.tablesBefore, key))
       /\ log[i].out.newCell = DecodedCell(key, CellAt(tables, key))

C17_Rollback ==
  (Ended /\ CleanStart /\ RollbackAsked) =>
    /\ tables = last.tablesBefore
    /\ values = last.valuesBefore

\* C19 (a failed write inside a transaction): after a typed write raised
\* inside the application's transaction, opened while the store had none
\* open, the store is left as it was, the store's transaction is as open as
\* the application's, and when the application has ended it the store's
\* transaction has ended too: rolled back if the rollback predicate returns
\* true, and otherwise with one invocation of the cell listener for each cell
\* whose stored value changed.
C19_FailedWriteKeepsTransaction ==
  (phase = "none" /\ FailedInside /\ CleanStart) =>
    /\ (last.op \in TypedWrites /\ last.err # "ok") => Unchanged
    /\ opened > 0 => transactions = opened
    /\ Ended =>
         /\ transactions = 0
         /\ IF RollbackAsked
            THEN tables = last.tablesBefore /\ values = last.valuesBefore
            ELSE \A key \in CellKeys :
                   IF CellAt(last.tablesBefore, key) = CellAt(tables, key)
                   THEN CallsFor(L.cellRec, key) = {}
                   ELSE InvokedOnce(L.cellRec, key)

---------------------------------------------------------------------------
(* Listeners *)

\* the store has made its calls for the change of the call in `last`, and the
\* change was kept
Delivered == phase = "none" /\ ~RollbackAsked

CellKeyOf(e) == <<e.in.tableId, e.in.rowId, e.in.cellId>>

DecodedValue(id, stored) ==
  IF id \in DOMAIN mapped.values THEN Decoded(mapped.values[id], stored) ELSE stored

\* a decoded value of a field is never the stored text of an encoded object
NeverRaw(codec, v) == codec = "json" => v.k \in {"object", "undefined"}

\* C12 (listener decode fidelity): every callback registered with
\* addCellListener on a declared cell is handed, as newCell and oldCell, the
\* decoded application values of what the store holds after the change and
\* held before it (undefined for an absent side, never the stored text of an
\* encoded field), and its getCellChange returns [changed, decoded old,
\* decoded new]; likewise addValueListener and getValueChange on a declared
\* value; and the oldCell of a notification is the newCell of the previous
\* notification for that cell.
C12_ListenerDecodeFidelity ==
  Delivered =>
    \A i \in DOMAIN log :
      /\ (log[i].kind = "cell" /\ Declared(log[i].in.tableId, log[i].in.cellId)) =>
           LET key == CellKeyOf(log[i])
               codec == mapped.tables[key[1]][key[3]]
               old == Decoded(codec, CellAt(last.tablesBefore, key))
               new == Decoded(codec, CellAt(tables, key))
           IN /\ log[i].out.oldCell = old /\ log[i].out.newCell = new
              /\ NeverRaw(codec, log[i].out.oldCell) /\ NeverRaw(codec, log[i].out.newCell)
              /\ log[i].change = [changed |-> TRUE, old |-> old, new |-> new]
              /\ log[i].told => log[i].out.oldCell = log[i].prev
      /\ (log[i].kind = "value" /\ log[i].in.valueId \in DOMAIN mapped.values) =>
           LET id == log[i].in.valueId
               codec == mapped.values[id]
               old == Decoded(codec, Get(last.valuesBefore, id))
               new == Decoded(codec, Get(values, id))
           IN /\ log[i].out.oldValue = old /\ log[i].out.newValue = new
              /\ NeverRaw(codec, log[i].out.oldValue) /\ NeverRaw(codec, log[i].out.newValue)
              /\ log[i].change = [changed |-> TRUE, old |-> old, new |-> new]

\* C12 witness: the second of two successive writes of an object to the cell
\* t.r1.o: the listener, told {s: "x"} before, is handed {s: "x"} as oldCell
\* and {s: "y"} as newCell for the stored JSON texts.
C12_Witness ==
  /\ Delivered /\ last.op = "setCell" /\ last.c = "o"
  /\ \E i \in CallsFor(L.cellRec, <<"t", "r1", "o">>) :
       /\ log[i].told /\ log[i].prev = Obj("x")
       /\ log[i].in.oldCell = JSONstringify(Obj("x"))
       /\ log[i].in.newCell = JSONstringify(Obj("y"))
       /\ log[i].out.oldCell = Obj("x") /\ log[i].out.newCell = Obj("y")
       /\ log[i].change = [changed |-> TRUE, old |-> Obj("x"), new |-> Obj("y")]

\* the listeners the application registers with null for every id
Wildcards == {L.cellRec, L.valueRec}

\* C13 (per-event codec selection): a cell or value listener registered with
\* wildcard ids is handed each change decoded with the codec declared for the
\* changed table id and cell id, or value id, whichever field changed; its
\* accessor decodes with the codec of the id passed to it; and a change under
\* an id with no declared schema is delivered with the stored scalar as it is.
C13_PerEventCodec ==
  phase = "none" =>
    \A i \in DOMAIN log :
      log[i].l \in Wildcards =>
        /\ log[i].kind = "cell" =>
             /\ log[i].out.newCell = DecodedCell(CellKeyOf(log[i]), log[i].in.newCell)
             /\ log[i].out.oldCell = DecodedCell(CellKeyOf(log[i]), log[i].in.oldCell)
             /\ log[i].other.new = Decoded("json", CellAt(tables, <<"t", "r1", "o">>))
             /\ log[i].other.old = Decoded("json", CellAt(last.tablesBefore, <<"t", "r1", "o">>))
             /\ ~Declared(log[i].in.tableId, log[i].in.cellId) =>
                  /\ log[i].out.newCell = CellAt(tables, CellKeyOf(log[i]))
                  /\ log[i].change.new = CellAt(tables, CellKeyOf(log[i]))
        /\ log[i].kind = "value" =>
             /\ log[i].out.newValue = DecodedValue(log[i].in.valueId, log[i].in.newValue)
             /\ log[i].out.oldValue = DecodedValue(log[i].in.valueId, log[i].in.oldValue)
             /\ log[i].other.new = Decoded("json", Get(values, "v"))
             /\ log[i].in.valueId \notin DOMAIN mapped.values =>
                  /\ log[i].out.newValue = Get(values, log[i].in.valueId)
                  /\ log[i].change.new = Get(values, log[i].in.valueId)

\* C13 witness: in one round the wildcard cell listener is handed the string
\* "a" for the cell t.r1.s and the object {s: "y"} for the cell t.r1.o, and
\* the accessor called for t.r1.o from the notification of t.r1.s returns the
\* object.
C13_Witness ==
  /\ phase = "none"
  /\ \E i \in CallsFor(L.cellRec, <<"t", "r1", "s">>) :
       /\ log[i].out.newCell = Str("a")
       /\ log[i].other.new = Obj("y")
  /\ \E i \in CallsFor(L.cellRec, <<"t", "r1", "o">>) :
       /\ log[i].in.newCell = JSONstringify(Obj("y"))
       /\ log[i].out.newCell = Obj("y")

\* the arguments a closure of the facade decodes; it hands on all the others
Payload == {"newCell", "oldCell", "newValue", "oldValue"}

KindsCalled == {log[i].kind : i \in DOMAIN log}

\* C14 (the facade is the first argument): with a listener registered through
\* every registration operation of the facade, each call the store makes with
\* the underlying store as first argument reaches the application's callback
\* with the facade object in its place, and with the table, row, cell and
\* value ids, the has-flags, the sorted row ids, the sort arguments and
\* getIdChanges exactly as the store supplied them.
C14_FacadeIsFirstArgument ==
  \A i \in DOMAIN log :
    /\ log[i].in.store = "store"
    /\ log[i].out.store = "typedStore"
    /\ DOMAIN log[i].out = DOMAIN log[i].in
    /\ \A f \in DOMAIN log[i].in \ (Payload \cup {"store"}) :
         log[i].out[f] = log[i].in[f]

\* C14 witness: setRow on the empty store called the listeners of thirteen
\* registration operations, among them the sorted-row-ids listener with
\* <<"r1">> and the table-ids listener with the added table id.
C14_Witness ==
  /\ phase = "none" /\ last.op = "setRow" /\ last.tablesBefore = Empty
  /\ KindsCalled = {"hasTables", "tableIds", "hasTable", "tableCellIds", "rowIds",
                    "hasRow", "sortedRowIds", "cellIds", "hasCell", "cell", "row",
                    "table", "tables"}
  /\ \E i \in DOMAIN log :
       /\ log[i].kind = "sortedRowIds"
       /\ log[i].out.sortedRowIds = <<"r1">>
       /\ log[i].out.tableId = "t" /\ log[i].out.cellId = "s"
  /\ \E i \in DOMAIN log :
       /\ log[i].kind = "tableIds"
       /\ log[i].out.getIdChanges = [t |-> 1]

\* the listeners the application registers with mutator = true
Mutators == {L.cellMut, L.tablesMut}

\* C15 (mutator ordering): in the calls made for one change, every call of a
\* listener registered with mutator = true comes before every call of a
\* listener registered without; and when the mutator listener on t.r1.s wrote
\* {s: "y"} to t.r1.o through the facade, the read getCell("t", "r1", "o") of
\* the non-mutator tables listener returns {s: "y"} and the non-mutator cell
\* listener is told of it.
C15_MutatorOrdering ==
  /\ \A i, j \in DOMAIN log :
       (log[i].l \in Mutators /\ log[j].l \notin Mutators) => i < j
  /\ \A i \in DOMAIN log :
       (log[i].l = L.cellMut /\ log[i].out.newCell = Str("a")) =>
         \A j \in DOMAIN log :
           /\ log[j].l = L.tablesRec => log[j].seen = Obj("y")
           /\ (log[j].l = L.cellRec /\ CellKeyOf(log[j]) = <<"t", "r1", "o">>) =>
                log[j].out.newCell = Obj("y")

\* C15 witness: a write of t.r1.s over a row holding {s: "x"} in t.r1.o: both
\* mutator listeners were called, then the others, and the tables listener
\* read {s: "y"}.
C15_Witness ==
  /\ phase = "none" /\ Len(log) = 5
  /\ CellAt(last.tablesBefore, <<"t", "r1", "o">>) = JSONstringify(Obj("x"))
  /\ log[1].l = L.cellMut /\ log[2].l = L.tablesMut
  /\ log[3].l = L.cellRec /\ log[4].l = L.cellRec
  /\ log[5].l = L.tablesRec /\ log[5].seen = Obj("y")

---------------------------------------------------------------------------
(* Codecs *)

Scalar(v) == v.k \in {"string", "number", "boolean", "null", "undefined"}

\* the codec call in `last` was given a value of the codec's domain
InDomain == last.op \in {"encoded", "decoded"} /\ last.x \in Domain(last.codec)

WholeSecond(d) == d.n % 1000 = 0

\* C21 as stated (codec round-trip): for each pre-built codec and every value x
\* of its application-level domain, encode(x) is a string, number, boolean,
\* null or undefined, and decode(encode(x)) equals x.
C21_CodecRoundTrip ==
  InDomain =>
    /\ last.stored.ok /\ Scalar(last.stored.v)
    /\ last.op = "decoded" => last.decoded.ok /\ last.decoded.v = last.x

\* C21 as amended: the round trip holds for json, dateAsIso and dateAsNumberMs
\* on their whole domain and for dateAsNumberSeconds on the dates that fall on
\* a whole second; encode(x) is a scalar for all four codecs and every x.
C21_CodecRoundTripOnWholeSeconds ==
  InDomain =>
    /\ last.stored.ok /\ Scalar(last.stored.v)
    /\ last.op = "decoded" =>
         /\ last.decoded.ok
         /\ (last.codec # "dateAsNumberSeconds" \/ WholeSecond(last.x))
              => last.decoded.v = last.x

\* a date with milliseconds has come back from its ISO text
C21_Witness ==
  /\ InDomain /\ last.op = "decoded" /\ last.codec = "dateAsIso"
  /\ last.x.n < 0 /\ ~WholeSecond(last.x)
  /\ last.stored.v = Str("1969-12-31T23:59:58.500Z")
  /\ last.decoded.v = last.x

Abs(n) == IF n < 0 THEN -n ELSE n

\* C22 (seconds and milliseconds codecs): dateAsNumberSeconds encodes the date
\* at m milliseconds as the integer m / 1000 rounded toward zero and decodes
\* an integer s as the date at s * 1000 milliseconds, so decode(encode(d)) is
\* d without its sub-second part and equals d exactly when m is a multiple of
\* 1000; dateAsNumberMs encodes d as m and decodes it back to d.
C22_SecondsTruncate ==
  /\ (InDomain /\ last.codec = "dateAsNumberSeconds") =>
       LET m == last.x.n
           q == last.stored.v.n
       IN /\ last.stored.ok /\ last.stored.v.k = "number"
          /\ q * m >= 0
          /\ Abs(q) * 1000 <= Abs(m) /\ Abs(m) < (Abs(q) + 1) * 1000
          /\ last.op = "decoded" =>
               /\ last.decoded = Done(DateV(q * 1000))
               /\ (last.decoded.v = last.x) <=> (m % 1000 = 0)
  /\ (last.op = "decoded" /\ last.x = Undef) =>
       last.decoded =
         Done(DateV(IF last.codec = "dateAsNumberSeconds"
                    THEN last.stored.v.n * 1000 ELSE last.stored.v.n))
  /\ (InDomain /\ last.codec = "dateAsNumberMs") =>
       /\ last.stored = Done(Num(last.x.n))
       /\ last.op = "decoded" => last.decoded = Done(last.x)

\* a date half a second before a whole second before the epoch came back as
\* that whole second
C22_Witness ==
  /\ InDomain /\ last.op = "decoded" /\ last.codec = "dateAsNumberSeconds"
  /\ last.x = DateV(-1500)
  /\ last.stored.v = Num(-1)
  /\ last.decoded.v = DateV(-1000)

---------------------------------------------------------------------------
(* Error paths *)

\* the declared cells of a row given to a typed write whose encoded output is
\* not storable
OffendingCells(tableId, row) ==
  IF tableId \notin DOMAIN mapped.tables THEN {}
  ELSE {c \in DOMAIN mapped.tables[tableId] \cap DOMAIN row :
          NonScalar(mapped.tables[tableId][c], row[c])}

\* the dotted paths of the fields of the call in `last` whose encoded output
\* is not storable
OffendingPaths ==
  IF last.op \in {"setRow", "setPartialRow"}
  THEN {"tables." \o last.t \o "." \o last.r \o "." \o c :
          c \in OffendingCells(last.t, last.inp)}
  ELSE IF last.op = "setTable"
  THEN UNION {{"tables." \o last.t \o "." \o r \o "." \o c :
                 c \in OffendingCells(last.t, last.inp[r])} : r \in DOMAIN last.inp}
  ELSE IF last.op = "setTables"
  THEN UNION {UNION {{"tables." \o t \o "." \o r \o "." \o c :
                        c \in OffendingCells(t, last.inp[t][r])} :
                       r \in DOMAIN last.inp[t]} : t \in DOMAIN last.inp}
  ELSE IF last.op = "setCell"
  THEN {"tables." \o last.t \o "." \o last.r \o "." \o c :
          c \in OffendingCells(last.t,
                  [x \in {last.c} |->
                     IF last.inp.k = "function" THEN callMapper(last.inp, last.arg)
                     ELSE last.inp])}
  ELSE IF last.op = "setValue"
  THEN {"values." \o id :
          id \in {id \in {last.c} \cap DOMAIN mapped.values :
                    NonScalar(mapped.values[id],
                              IF last.inp.k = "function"
                              THEN callMapper(last.inp, last.arg) ELSE last.inp)}}
  ELSE IF last.op = "setValues"
  THEN {"values." \o id :
          id \in {id \in DOMAIN last.inp \cap DOMAIN mapped.values :
                    NonScalar(mapped.values[id], last.inp[id])}}
  ELSE IF last.op = "setContent"
  THEN UNION {UNION {{"tables." \o t \o "." \o r \o "." \o c :
                        c \in OffendingCells(t, last.inp[1][t][r])} :
                       r \in DOMAIN last.inp[1][t]} : t \in DOMAIN last.inp[1]}
         \cup {"values." \o id :
                 id \in {id \in DOMAIN last.inp[2] \cap DOMAIN mapped.values :
                           NonScalar(mapped.values[id], last.inp[2][id])}}
  ELSE {}

\* C23 (error paths): every failure of the storage guard names the offending
\* field: the error of a setRow, setTable, setTables or setCell (literal or
\* mapper) carries the path tables.<tableId>.<rowId>.<cellId> of a cell of the
\* input whose encoded output is not a scalar, the error of a setValue or
\* setValues the path values.<valueId> of such a value; and a write whose only
\* failure is one such field raises exactly that error.
C23_GuardErrorPath ==
  /\ last.err = "StorageType" => last.path \in OffendingPaths
  /\ (last.op \in TypedWrites /\ last.err = "ok") => OffendingPaths = {}

\* a mapper called for the cell d of row r2 returned a Date, and the error
\* carries that cell's path
C23_Witness ==
  /\ last.op = "setCell" /\ last.inp = Fn("toDate") /\ last.called
  /\ last.err = "StorageType" /\ last.path = "tables.t.r2.d"

---------------------------------------------------------------------------
(* Partial rows *)

\* the decoded row (t, r) as it was when the call in `last` was made
RowBefore(tableId, rowId) ==
  zodDecodeRow(mapped.tables[tableId],
               GetMap(GetMap(last.tablesBefore, tableId), rowId)).v

\* {...row, ...update}, without the fields left undefined
Merged(row, update) ==
  [c \in {c \in DOMAIN row \cup DOMAIN update :
            (IF c \in DOMAIN update THEN update[c] ELSE row[c]) # Undef} |->
     IF c \in DOMAIN update THEN update[c] ELSE row[c]]

\* the row getRow returns, {} standing for undefined
RowNow(tableId, rowId) ==
  IF getRow(tableId, rowId).v = Undef THEN Empty ELSE getRow(tableId, rowId).v

\* C24 (setPartialRow): on a declared table, a setPartialRow(t, r, u) that
\* returns on an existing row leaves getRow(t, r) equal to the shallow merge of
\* the row decoded before the call with u, the stored row being the encoding
\* of that merge and nothing else; on a row that does not exist it raises the
\* missing-row error and leaves the store unchanged.
C24_SetPartialRowMerges ==
  (last.op = "setPartialRow" /\ last.t \in DOMAIN mapped.tables) =>
    IF RowExistedBefore(last.t, last.r)
    THEN last.err = "ok" =>
           /\ getRow(last.t, last.r).err = "ok"
           /\ RowNow(last.t, last.r) = Merged(RowBefore(last.t, last.r), last.inp)
           /\ DOMAIN storeGetRow(last.t, last.r)
                = DOMAIN Merged(RowBefore(last.t, last.r), last.inp)
    ELSE last.err = "MissingRow" /\ Unchanged

---------------------------------------------------------------------------
(* Content *)

\* the declared fields of a row of the content that are not undefined
ContentRow(tableId, row) ==
  [c \in {c \in DOMAIN mapped.tables[tableId] \cap DOMAIN row : row[c] # Undef} |->
     row[c]]

ContentTable(tableId, table) ==
  [r \in {r \in DOMAIN table : ContentRow(tableId, table[r]) # Empty} |->
     ContentRow(tableId, table[r])]

\* what the tables half of a content says the declared tables hold
ContentTables(tbs) ==
  [t \in {t \in DOMAIN tbs \cap DOMAIN mapped.tables :
            ContentTable(t, tbs[t]) # Empty} |-> ContentTable(t, tbs[t])]

\* what the values half of a content says the declared values are
ContentValues(vals) ==
  [id \in {id \in DOMAIN vals \cap DOMAIN mapped.values : vals[id] # Undef} |->
     vals[id]]

\* C25 (setContent): after setContent([tables, values]) returns, the typed
\* reads return the content (its declared tables and values), the underlying
\* store holds its encoding as setTables and setValues encode it, and nothing
\* else: the tables and the values stored before the call, those of an earlier
\* setContent included, are replaced.
C25_SetContentReplaces ==
  (last.op = "setContent" /\ last.err = "ok") =>
    /\ getTables = Value(ContentTables(last.inp[1]))
    /\ getValues = Value(ContentValues(last.inp[2]))
    /\ tables = EncodedTables(last.inp[1])
    /\ values = EncodedValues(last.inp[2])

---------------------------------------------------------------------------
(* Errors and the store *)

\* the step is a typed write that failed
FailedWrite == last' # last /\ last'.op \in TypedWrites /\ last'.err # "ok"

\* C26 (errors precede the store): a typed write that fails, in literal form
\* or in mapper form, has raised its error before any write primitive of the
\* underlying store was invoked for it: the store has not been entered, so its
\* transaction counter and its content are what they were before the call.
C26_ErrorsPrecedeTheStore ==
  [][FailedWrite =>
       /\ transactions' = transactions
       /\ tables' = tables /\ values' = values]_vars

---------------------------------------------------------------------------
(* Missing rows *)

---------------------------------------------------------------------------
(* Mapper form *)

\* the call in `last` is a mapper-form write that got as far as its mapper:
\* setCell on an existing row and a declared cell, or setValue on a declared
\* value
MapperForm ==
  /\ \/ /\ last.op = "setCell"
        /\ RowExistedBefore(last.t, last.r) /\ Declared(last.t, last.c)
     \/ /\ last.op = "setValue" /\ last.c \in DOMAIN mapped.values
  /\ last.inp.k = "function"

\* the field's codec, the scalar stored for it before the call and after it
MapperCodec ==
  IF last.op = "setCell" THEN mapped.tables[last.t][last.c] ELSE mapped.values[last.c]

StoredBefore ==
  IF last.op = "setCell" THEN CellBefore(last.t, last.r, last.c) ELSE ValueBefore(last.c)

StoredNow ==
  IF last.op = "setCell" THEN storeGetCell(last.t, last.r, last.c)
  ELSE storeGetValue(last.c)

\* v is the application value the scalar `stored` stands for under `codec`
StandsFor(codec, stored, v) ==
  IF codec = "json" THEN v.k = "object" /\ JSONstringify(v) = stored
  ELSE IF codec = "string" THEN v.k = "string" /\ v = stored
  ELSE FALSE

---------------------------------------------------------------------------
(* Deletions *)

Deletions == {"delTables", "delTable", "delRow", "delCell", "delValues", "delValue"}

\* the cells the deletion in `last` addresses
AddressedCell(key) ==
  \/ last.op = "delTables"
  \/ last.op = "delTable" /\ key[1] = last.t
  \/ last.op = "delRow" /\ key[1] = last.t /\ key[2] = last.r
  \/ last.op = "delCell" /\ key = <<last.t, last.r, last.c>>

\* the values the deletion in `last` addresses
AddressedValue(id) ==
  \/ last.op = "delValues"
  \/ last.op = "delValue" /\ id = last.c

\* C30 (deletions): delTables, delTable, delRow, delCell, delValues and
\* delValue never raise, whether the ids are declared or not, and delete what
\* the store's own operation deletes: afterwards every addressed cell and value
\* is absent from the underlying store, those stored under undeclared ids
\* included, and every other cell and value is what it was; setValue on an
\* undeclared id, by contrast, changes nothing.
C30_DeletionsIgnoreDeclaration ==
  /\ last.op \in Deletions =>
       /\ last.err = "ok"
       /\ \A key \in CellKeys :
            CellAt(tables, key) =
              IF AddressedCell(key) THEN Undef ELSE CellAt(last.tablesBefore, key)
       /\ \A id \in ValueIds :
            Get(values, id) =
              IF AddressedValue(id) THEN Undef ELSE Get(last.valuesBefore, id)
       /\ DOMAIN values \subseteq DOMAIN last.valuesBefore
       /\ \A t \in DOMAIN tables :
            /\ t \in DOMAIN last.tablesBefore
            /\ DOMAIN tables[t] \subseteq DOMAIN last.tablesBefore[t]
  /\ (last.op = "setValue" /\ last.c \notin DOMAIN mapped.values) =>
       last.err = "ok" /\ Unchanged

\* delValue removed the value stored under an undeclared id and left the
\* declared one, beside a table stored under an undeclared id
C30_Witness ==
  /\ last.op = "delValue" /\ last.c = "extra"
  /\ "extra" \in DOMAIN last.valuesBefore
  /\ "extra" \notin DOMAIN values
  /\ "v" \in DOMAIN values
  /\ "u" \in DOMAIN tables

====
